---- MODULE Spec2Model ----
(***************************************************************************)
(* Rate-limit governor (libs/rate_limiter.py) and job poller               *)
(* (libs/base_api.py, libs/photoshop_api.py) of the creative automation    *)
(* pipeline.                                                               *)
(*                                                                         *)
(* Time is counted in ticks.  A token bucket's `tokens` is a real number   *)
(* in the source; here it is a fixed-point number with TokenScale steps    *)
(* per token, and refill_rate is given in steps per tick, so that          *)
(* elapsed * refill_rate is computed as in the source.                     *)
(***************************************************************************)
EXTENDS Integers, Sequences, FiniteSets, TLC

\* ------------------------------------------------------------------ bounds
TokenScale == 2      \* fixed-point steps per token
MaxOps == 2          \* gated calls started, over all callers
MaxTime == 2         \* last tick at which a caller starts a call

\* Concurrent callers of the gate, and the n they ask for.
Callers == {1, 2}
TokenChoices == {1, 2}

Min(a, b) == IF a < b THEN a ELSE b

Units(n) == n * TokenScale

\* ------------------------------------------------- limiter algorithms

RateLimitAlgorithm == {"token_bucket", "sliding_window", "fixed_window"}

\* RateLimitConfig; an Optional field that is None is 0 here (both are falsy
\* for the `or` of add_limiter).  refill_rate is in steps per tick.
RateLimitConfig(max_requests, time_window, algorithm, burst_capacity, refill_rate) ==
    [max_requests |-> max_requests, time_window |-> time_window,
     algorithm |-> algorithm, burst_capacity |-> burst_capacity,
     refill_rate |-> refill_rate]

\* Faulty variant: a new bucket starts empty.
TokenBucket_starts_empty(capacity, refill_rate, t) ==
    [kind |-> "token_bucket", capacity |-> capacity, refill_rate |-> refill_rate,
     tokens |-> 0, last_refill |-> t]

TokenBucket(capacity, refill_rate, t) ==
    [kind |-> "token_bucket", capacity |-> capacity, refill_rate |-> refill_rate,
     tokens |-> Units(capacity), last_refill |-> t]

SlidingWindow(max_requests, time_window) ==
    [kind |-> "sliding_window", max_requests |-> max_requests,
     time_window |-> time_window, requests |-> << >>]

FixedWindow(max_requests, time_window, t) ==
    [kind |-> "fixed_window", max_requests |-> max_requests,
     time_window |-> time_window, window_start |-> t, request_count |-> 0]

\* Faulty variant: the refill is not capped at capacity.
TokenBucket_refill_uncapped(self, t) ==
    LET elapsed == t - self.last_refill
        tokens_to_add == elapsed * self.refill_rate
    IN  [self EXCEPT !.tokens = self.tokens + tokens_to_add, !.last_refill = t]

\* Faulty variant: each call adds one interval's refill, whatever time elapsed.
TokenBucket_refill_per_call(self, t) ==
    [self EXCEPT !.tokens = Min(Units(self.capacity), self.tokens + self.refill_rate),
                 !.last_refill = t]

TokenBucket_refill(self, t) ==
    LET elapsed == t - self.last_refill
        tokens_to_add == elapsed * self.refill_rate
    IN  [self EXCEPT !.tokens = Min(Units(self.capacity), self.tokens + tokens_to_add),
                     !.last_refill = t]

\* Faulty variant: the tokens are deducted also when the request is denied.
TokenBucket_acquire_always_deducts(self, tokens, t) ==
    LET r == TokenBucket_refill(self, t)
    IN  [ok |-> r.tokens >= Units(tokens), wait_time |-> 0,
         lim |-> [r EXCEPT !.tokens = r.tokens - Units(tokens)]]

TokenBucket_acquire(self, tokens, t) ==
    LET r == TokenBucket_refill(self, t)
    IN  IF r.tokens >= Units(tokens)
        THEN [ok |-> TRUE, wait_time |-> 0,
              lim |-> [r EXCEPT !.tokens = r.tokens - Units(tokens)]]
        ELSE [ok |-> FALSE, wait_time |-> 0, lim |-> r]

\* Faulty variant: the estimate is computed from the tokens left by the last
\* call, without the refill.
TokenBucket_get_wait_time_no_refill(self, tokens, t) ==
    IF self.tokens >= Units(tokens)
    THEN [ok |-> FALSE, wait_time |-> 0, lim |-> self]
    ELSE [ok |-> FALSE,
          wait_time |-> (Units(tokens) - self.tokens) \div self.refill_rate,
          lim |-> self]

TokenBucket_get_wait_time(self, tokens, t) ==
    LET r == TokenBucket_refill(self, t)
    IN  IF r.tokens >= Units(tokens)
        THEN [ok |-> FALSE, wait_time |-> 0, lim |-> r]
        ELSE LET tokens_needed == Units(tokens) - r.tokens
             IN  [ok |-> FALSE, wait_time |-> tokens_needed \div r.refill_rate,
                  lim |-> r]

RECURSIVE PopOld(_, _)
PopOld(requests, limit) ==
    IF requests # << >> /\ Head(requests) <= limit
    THEN PopOld(Tail(requests), limit)
    ELSE requests

\* Faulty variant: old requests are never removed.
SlidingWindow_acquire_no_evict(self, t) ==
    IF Len(self.requests) < self.max_requests
    THEN [ok |-> TRUE, wait_time |-> 0,
          lim |-> [self EXCEPT !.requests = Append(self.requests, t)]]
    ELSE [ok |-> FALSE, wait_time |-> 0, lim |-> self]

SlidingWindow_acquire(self, t) ==
    LET kept == PopOld(self.requests, t - self.time_window)
    IN  IF Len(kept) < self.max_requests
        THEN [ok |-> TRUE, wait_time |-> 0,
              lim |-> [self EXCEPT !.requests = Append(kept, t)]]
        ELSE [ok |-> FALSE, wait_time |-> 0,
              lim |-> [self EXCEPT !.requests = kept]]

SlidingWindow_get_wait_time(self, t) ==
    IF Len(self.requests) < self.max_requests
    THEN [ok |-> FALSE, wait_time |-> 0, lim |-> self]
    ELSE LET oldest_request == Head(self.requests)
         IN  [ok |-> FALSE, wait_time |-> oldest_request + self.time_window - t,
              lim |-> self]

\* Faulty variant: the window is never reset.
FixedWindow_acquire_no_reset(self, t) ==
    IF self.request_count < self.max_requests
    THEN [ok |-> TRUE, wait_time |-> 0,
          lim |-> [self EXCEPT !.request_count = self.request_count + 1]]
    ELSE [ok |-> FALSE, wait_time |-> 0, lim |-> self]

FixedWindow_acquire(self, t) ==
    LET w == IF t - self.window_start >= self.time_window
             THEN [self EXCEPT !.window_start = t, !.request_count = 0]
             ELSE self
    IN  IF w.request_count < w.max_requests
        THEN [ok |-> TRUE, wait_time |-> 0,
              lim |-> [w EXCEPT !.request_count = w.request_count + 1]]
        ELSE [ok |-> FALSE, wait_time |-> 0, lim |-> w]

\* Faulty variant: the time since the window started, not the time left in it.
FixedWindow_get_wait_time_elapsed(self, t) ==
    LET window_end == self.window_start + self.time_window
    IN  IF t >= window_end
        THEN [ok |-> FALSE, wait_time |-> 0, lim |-> self]
        ELSE [ok |-> FALSE, wait_time |-> t - self.window_start + 1, lim |-> self]

FixedWindow_get_wait_time(self, t) ==
    LET window_end == self.window_start + self.time_window
    IN  IF t >= window_end
        THEN [ok |-> FALSE, wait_time |-> 0, lim |-> self]
        ELSE [ok |-> FALSE, wait_time |-> window_end - t, lim |-> self]

\* ------------------------------------------------------------ registry

\* Faulty variant: a name that is registered keeps the limiter it has.
add_limiter_keeps_existing(reg, name, config, t) ==
    LET capacity == IF config.burst_capacity # 0 THEN config.burst_capacity
                    ELSE config.max_requests
        refill_rate == IF config.refill_rate # 0 THEN config.refill_rate
                       ELSE Units(config.max_requests) \div config.time_window
        inst == CASE config.algorithm = "token_bucket" ->
                       TokenBucket(capacity, refill_rate, t)
                  [] config.algorithm = "sliding_window" ->
                       SlidingWindow(config.max_requests, config.time_window)
                  [] config.algorithm = "fixed_window" ->
                       FixedWindow(config.max_requests, config.time_window, t)
    IN  [n \in (DOMAIN reg) \cup {name} |->
            IF n \in DOMAIN reg THEN reg[n] ELSE inst]

\* Faulty variant: the bucket's capacity is max_requests even when a burst
\* capacity is configured.
add_limiter_ignores_burst(reg, name, config, t) ==
    LET refill_rate == IF config.refill_rate # 0 THEN config.refill_rate
                       ELSE Units(config.max_requests) \div config.time_window
        inst == CASE config.algorithm = "token_bucket" ->
                       TokenBucket(config.max_requests, refill_rate, t)
                  [] config.algorithm = "sliding_window" ->
                       SlidingWindow(config.max_requests, config.time_window)
                  [] config.algorithm = "fixed_window" ->
                       FixedWindow(config.max_requests, config.time_window, t)
    IN  [n \in (DOMAIN reg) \cup {name} |-> IF n = name THEN inst ELSE reg[n]]

\* RateLimiter.add_limiter: the registry after registering `name`.
add_limiter(reg, name, config, t) ==
    LET capacity == IF config.burst_capacity # 0 THEN config.burst_capacity
                    ELSE config.max_requests
        refill_rate == IF config.refill_rate # 0 THEN config.refill_rate
                       ELSE Units(config.max_requests) \div config.time_window
        inst == CASE config.algorithm = "token_bucket" ->
                       TokenBucket(capacity, refill_rate, t)
                  [] config.algorithm = "sliding_window" ->
                       SlidingWindow(config.max_requests, config.time_window)
                  [] config.algorithm = "fixed_window" ->
                       FixedWindow(config.max_requests, config.time_window, t)
    IN  [n \in (DOMAIN reg) \cup {name} |-> IF n = name THEN inst ELSE reg[n]]

\* Faulty variant: a window limiter is asked once per token.
RateLimiter_acquire_per_token(limiter, tokens, t) ==
    IF limiter.kind = "token_bucket"
    THEN TokenBucket_acquire(limiter, tokens, t)
    ELSE LET once(l) == IF l.kind = "sliding_window"
                        THEN SlidingWindow_acquire(l, t)
                        ELSE FixedWindow_acquire(l, t)
             first == once(limiter)
         IN  IF tokens > 1 /\ first.ok THEN once(first.lim) ELSE first

\* The body of RateLimiter.acquire for a registered name (isinstance dispatch).
RateLimiter_acquire(limiter, tokens, t) ==
    IF limiter.kind = "token_bucket"
    THEN TokenBucket_acquire(limiter, tokens, t)
    ELSE IF limiter.kind = "sliding_window"
         THEN SlidingWindow_acquire(limiter, t)
         ELSE FixedWindow_acquire(limiter, t)

\* The body of RateLimiter.get_wait_time for a registered name.
RateLimiter_get_wait_time(limiter, tokens, t) ==
    IF limiter.kind = "token_bucket"
    THEN TokenBucket_get_wait_time(limiter, tokens, t)
    ELSE IF limiter.kind = "sliding_window"
         THEN SlidingWindow_get_wait_time(limiter, t)
         ELSE FixedWindow_get_wait_time(limiter, t)

\* Faulty variant: an unknown name is refused (fail-closed).
NoLimiterConfigured_closed == [ok |-> FALSE, wait_time |-> 1]

\* `if name not in self.limiters` of acquire / get_wait_time: admit, wait 0.
NoLimiterConfigured == [ok |-> TRUE, wait_time |-> 0]


\* --------------------------------------------------- admission gate

\* RateLimiter.wait_if_needed: the time it sleeps for a given wait_time.
wait_if_needed(wait_time) == IF wait_time > 0 THEN wait_time ELSE 0

\* Faulty variant: a denied acquire in non-wait mode is ignored.
wrapper_ignores_denial(wait, res) ==
    IF wait
    THEN IF wait_if_needed(res.wait_time) > 0 THEN "sleeping" ELSE "func"
    ELSE "func"

\* Faulty variant: wait mode raises instead of sleeping when the budget is used up.
wrapper_raises_in_wait(wait, res) ==
    IF wait
    THEN IF wait_if_needed(res.wait_time) > 0 THEN "raised" ELSE "func"
    ELSE IF ~res.ok THEN "raised" ELSE "func"

\* rate_limit.decorator.wrapper: where the caller goes once the limiter has
\* answered.  "func" is the wrapped function running.
wrapper(wait, res) ==
    IF wait
    THEN IF wait_if_needed(res.wait_time) > 0 THEN "sleeping" ELSE "func"
    ELSE IF ~res.ok THEN "raised" ELSE "func"

\* ------------------------------------------------------------- state

VARIABLES
    now,        \* time.time(), in ticks
    limiters,   \* rate_limiter.limiters: name -> limiter instance
    lock,       \* name -> holder of that instance's _lock (0: free)
    pc,         \* caller -> position
    op,         \* caller -> the call it is making
    opsDone,    \* calls started so far
    ret,        \* caller -> what the limiter answered in this call
    tries,      \* caller -> acquire calls made in this call
    committed,  \* caller -> budget its successful acquire consumed in this call
    slept,      \* caller -> time the gate made it sleep in this call
    wakeAt,     \* caller -> end of its time.sleep
    admitLog,   \* successful TokenBucket.acquire calls: <<[name, t, n]>>
    snap        \* caller -> the instance as it read it inside the locked body

gateVars == <<now, limiters, lock, pc, op, opsDone, ret, tries, committed,
              slept, wakeAt, admitLog, snap>>

\* The limiter configurations registered with add_limiter, as in
\* setup_default_rate_limits but with small numbers: a token bucket, a sliding
\* window and a fixed window.  A behaviour starts with one of them registered.
DefaultTable ==
    <<[name |-> "adobe_auth",
       config |-> RateLimitConfig(2, 2, "token_bucket", 2, 1)],
      [name |-> "adobe_firefly",
       config |-> RateLimitConfig(2, 3, "sliding_window", 0, 0)],
      [name |-> "batch",
       config |-> RateLimitConfig(1, 2, "fixed_window", 0, 0)]>>

Names == {DefaultTable[i].name : i \in DOMAIN DefaultTable} \cup {"unregistered"}

\* The calls a caller can make: a function wrapped by
\* @rate_limit(name, tokens, wait), on a registered name or on a name that no
\* limiter is registered under.
Ops ==
    LET names == (DOMAIN limiters) \cup {"unregistered"}
    IN  [fn : {"rate_limit"}, name : names, tokens : TokenChoices, wait : BOOLEAN]

NoOp == [fn |-> "none", name |-> "unregistered", tokens |-> 1, wait |-> FALSE]
NoRet == [ok |-> FALSE, wait_time |-> 0]

\* The registry method the wrapper invokes: get_wait_time (through
\* wait_if_needed) in wait mode, acquire otherwise.
Method(o) == IF o.wait THEN "get_wait_time" ELSE "acquire"

Registered(name) == name \in DOMAIN limiters

GateInit ==
    /\ now = 0
    /\ \E i \in DOMAIN DefaultTable :
           limiters = add_limiter(<< >>, DefaultTable[i].name,
                                  DefaultTable[i].config, 0)
    /\ lock = [n \in Names |-> 0]
    /\ pc = [c \in Callers |-> "idle"]
    /\ op = [c \in Callers |-> NoOp]
    /\ opsDone = 0
    /\ ret = [c \in Callers |-> NoRet]
    /\ tries = [c \in Callers |-> 0]
    /\ committed = [c \in Callers |-> 0]
    /\ slept = [c \in Callers |-> 0]
    /\ wakeAt = [c \in Callers |-> 0]
    /\ admitLog = << >>
    /\ snap = [c \in Callers |-> NoRet]

\* ------------------------------------------------- caller operations

\* A caller calls a function wrapped by @rate_limit(name, tokens, wait).
Start(c) ==
    /\ pc[c] = "idle"
    /\ opsDone < MaxOps
    /\ now <= MaxTime
    /\ \E o \in Ops : op' = [op EXCEPT ![c] = o]
    /\ pc' = [pc EXCEPT ![c] = "call"]
    /\ opsDone' = opsDone + 1
    /\ UNCHANGED <<now, limiters, lock, ret, tries, committed, slept,
                   wakeAt, admitLog, snap>>

\* `if name not in self.limiters`: no limiter is consulted, no lock is taken.
FailOpen(c) ==
    /\ pc[c] = "call"
    /\ ~Registered(op[c].name)
    /\ LET res == NoLimiterConfigured
       IN  /\ ret' = [ret EXCEPT ![c] = res]
           /\ pc' = [pc EXCEPT ![c] = wrapper(op[c].wait, res)]
           /\ wakeAt' = [wakeAt EXCEPT ![c] = now + wait_if_needed(res.wait_time)]
           /\ tries' = [tries EXCEPT ![c] =
                            IF Method(op[c]) = "acquire" THEN @ + 1 ELSE @]
    /\ UNCHANGED <<now, limiters, lock, op, opsDone, committed, slept, admitLog, snap>>

\* Faulty variant: one lock is shared by every limiter of the registry.
lock_of_registry(name) == CHOOSE n \in DOMAIN limiters : TRUE

\* The lock a call on `name` takes: self._lock of the instance registered
\* under the name.  RateLimiter._lock is taken by add_limiter only.
lock_of(name) == name

\* Faulty variant: the lock is taken without waiting for its holder.
lock_not_awaited(holder) == TRUE

\* threading.Lock: `with self._lock:` is entered once nobody holds the lock.
lock_is_free(holder) == holder = 0

\* Faulty variant: the lock is still held while the caller sleeps.
released_after_sleep(c, next_pc) == IF next_pc = "sleeping" THEN c ELSE 0

\* The holder of the lock once caller c has left the `with self._lock:` block
\* and gone on to next_pc: the methods return out of the block, so nobody.
released(c, next_pc) == 0

\* `with self._lock:` of the limiter instance registered under the name, and
\* the body's reads of the instance.
Lock(c) ==
    /\ pc[c] = "call"
    /\ Registered(op[c].name)
    /\ lock_is_free(lock[lock_of(op[c].name)])
    /\ lock' = [lock EXCEPT ![lock_of(op[c].name)] = c]
    /\ snap' = [snap EXCEPT ![c] = limiters[op[c].name]]
    /\ pc' = [pc EXCEPT ![c] = "locked"]
    /\ UNCHANGED <<now, limiters, op, opsDone, ret, tries, committed, slept,
                   wakeAt, admitLog>>

\* What a successful acquire consumed: n tokens of a bucket, one request of a
\* window.
Consumed(limiter, tokens) ==
    IF limiter.kind = "token_bucket" THEN tokens ELSE 1

\* The rest of the locked body of the limiter's acquire / get_wait_time (its
\* decision and its writes), the release of the lock, and the caller's local
\* decision on the answer.
Body(c) ==
    /\ pc[c] = "locked"
    /\ LET name == op[c].name
           limiter == snap[c]
           acq == Method(op[c]) = "acquire"
           res == IF acq
                  THEN RateLimiter_acquire(limiter, op[c].tokens, now)
                  ELSE RateLimiter_get_wait_time(limiter, op[c].tokens, now)
       IN  /\ limiters' = [limiters EXCEPT ![name] = res.lim]
           /\ lock' = [lock EXCEPT ![lock_of(name)] =
                                  released(c, wrapper(op[c].wait, res))]
           /\ snap' = [snap EXCEPT ![c] = NoRet]
           /\ ret' = [ret EXCEPT ![c] = [ok |-> res.ok, wait_time |-> res.wait_time]]
           /\ tries' = [tries EXCEPT ![c] = IF acq THEN @ + 1 ELSE @]
           /\ committed' = [committed EXCEPT ![c] =
                               IF res.ok THEN @ + Consumed(limiter, op[c].tokens)
                               ELSE @]
           /\ admitLog' = IF res.ok /\ limiter.kind = "token_bucket"
                          THEN Append(admitLog,
                                      [name |-> name, t |-> now, n |-> op[c].tokens])
                          ELSE admitLog
           /\ pc' = [pc EXCEPT ![c] = wrapper(op[c].wait, res)]
           /\ wakeAt' = [wakeAt EXCEPT ![c] = now + wait_if_needed(res.wait_time)]
    /\ UNCHANGED <<now, op, opsDone, slept>>

\* time.sleep(wait_time) of wait_if_needed returns.
Wake(c) ==
    /\ pc[c] = "sleeping"
    /\ now >= wakeAt[c]
    /\ pc' = [pc EXCEPT ![c] = "func"]
    /\ slept' = [slept EXCEPT ![c] = wait_if_needed(ret[c].wait_time)]
    /\ UNCHANGED <<now, limiters, lock, op, opsDone, ret, tries, committed,
                   wakeAt, admitLog, snap>>

\* The call is over: the wrapped function returned, or RateLimitExceeded
\* propagated to the caller.
Finish(c) ==
    /\ pc[c] \in {"func", "raised"}
    /\ pc' = [pc EXCEPT ![c] = "idle"]
    /\ op' = [op EXCEPT ![c] = NoOp]
    /\ ret' = [ret EXCEPT ![c] = NoRet]
    /\ tries' = [tries EXCEPT ![c] = 0]
    /\ committed' = [committed EXCEPT ![c] = 0]
    /\ slept' = [slept EXCEPT ![c] = 0]
    /\ wakeAt' = [wakeAt EXCEPT ![c] = 0]
    /\ UNCHANGED <<now, limiters, lock, opsDone, admitLog, snap>>

\* The clock advances; past MaxTime only while a sleeper is still due.
Tick ==
    /\ \/ now < MaxTime
       \/ \E c \in Callers : pc[c] = "sleeping" /\ wakeAt[c] > now
    /\ now' = now + 1
    /\ UNCHANGED <<limiters, lock, pc, op, opsDone, ret, tries, committed,
                   slept, wakeAt, admitLog, snap>>

CallerStep(c) ==
    \/ Start(c)
    \/ FailOpen(c)
    \/ Lock(c)
    \/ Body(c)
    \/ Wake(c)
    \/ Finish(c)

GateNext == Tick \/ \E c \in Callers : CallerStep(c)

\* ---------------------------------------------------------- job poller

\* Config.DEFAULT_POLL_INTERVAL, Config.DEFAULT_MAX_ATTEMPTS,
\* Config.ENABLE_RATE_LIMITING (their defaults).
DEFAULT_POLL_INTERVAL == 5
DEFAULT_MAX_ATTEMPTS == 120
ENABLE_RATE_LIMITING == TRUE

\* Constants: the polling status codes.
STATUS_PENDING == "pending"
STATUS_RUNNING == "running"
STATUS_PROCESSING == "processing"
STATUS_SUCCEEDED == "succeeded"
STATUS_FAILED == "failed"

MaxIntervalArg == 2   \* largest poll_interval a caller passes
MaxAttemptsArg == 3   \* largest max_attempts a caller passes

\* A status response (the JSON body).  A missing key is "absent"; a key whose
\* value is null, or an object without the key looked up in it, gives "None".
\* outputs is the outputs array (empty also when the key is missing), each
\* element with its own status; job is the status under the job object.
Response(status, outputs, job, error, message) ==
    [status |-> status, outputs |-> outputs, job |-> job, error |-> error,
     message |-> message]

Output(status) == [status |-> status]

Responses ==
    { Response(st, << >>, "absent", "absent", "absent") :
        st \in {STATUS_PENDING, STATUS_RUNNING, STATUS_PROCESSING, "queued", "None",
                "absent"} }
    \cup
    { Response(STATUS_RUNNING, <<Output("absent")>>, "absent", "absent", "absent"),
      Response(STATUS_SUCCEEDED, <<Output("absent")>>, "absent", "absent", "absent"),
      Response(STATUS_SUCCEEDED, << >>, "absent", "absent", "absent") }
    \cup
    { Response(STATUS_FAILED, << >>, "absent", e, m) :
        e \in {"absent", "bad input"}, m \in {"absent", "quota exceeded"} }
    \cup
    { Response("absent", <<Output(st)>>, j, "absent", "absent") :
        st \in {"absent", STATUS_RUNNING, STATUS_SUCCEEDED, STATUS_FAILED},
        j \in {"absent", STATUS_FAILED} }
    \cup
    { Response("absent", << >>, j, "absent", "quota exceeded") :
        j \in {"None", STATUS_RUNNING, STATUS_SUCCEEDED, STATUS_FAILED} }

NoResponse == Response("absent", << >>, "absent", "absent", "absent")

\* dict.get(key): None when the key is missing.
Get(v) == IF v = "absent" THEN "None" ELSE v

\* BaseAdobeAPI._extract_status
extract_status(status_data) ==
    IF status_data.status # "absent"
    THEN Get(status_data.status)
    ELSE IF Len(status_data.outputs) > 0
         THEN Get(status_data.outputs[1].status)
         ELSE IF status_data.job # "absent"
              THEN Get(status_data.job)
              ELSE "None"

\* The status lookup written out in AdobePhotoshopAPI.poll_job_status.
photoshop_extract_status(status_data) ==
    IF status_data.status # "absent"
    THEN Get(status_data.status)
    ELSE IF Len(status_data.outputs) > 0
         THEN Get(status_data.outputs[1].status)
         ELSE IF status_data.job # "absent"
              THEN Get(status_data.job)
              ELSE "None"

\* Faulty variant: the message field is preferred to the error field.
error_msg_message_first(status_data) ==
    IF status_data.message # "absent" THEN status_data.message
    ELSE IF status_data.error # "absent" THEN status_data.error
         ELSE "Unknown error"

\* status_data.get('error', status_data.get('message', 'Unknown error'))
error_msg(status_data) ==
    IF status_data.error # "absent" THEN status_data.error
    ELSE IF status_data.message # "absent" THEN status_data.message
         ELSE "Unknown error"

InProgressCodes == {STATUS_PENDING, STATUS_RUNNING, STATUS_PROCESSING}

\* Faulty variant: the success code is misspelt, so success is never recognised.
base_outcome_misses_success(status_data) ==
    LET status == extract_status(status_data)
    IN  IF status = "success" THEN "returned"
        ELSE IF status = STATUS_FAILED THEN "job_failed"
        ELSE "sleeping"

\* The if/elif chain of BaseAdobeAPI.poll_job_status on a response: what the
\* attempt ends in.
base_outcome(status_data) ==
    LET status == extract_status(status_data)
    IN  IF status = STATUS_SUCCEEDED THEN "returned"
        ELSE IF status = STATUS_FAILED THEN "job_failed"
        ELSE IF status \in InProgressCodes THEN "sleeping"
        ELSE "sleeping"

\* The if/elif chain of AdobePhotoshopAPI.poll_job_status.
photoshop_outcome(status_data) ==
    LET status == photoshop_extract_status(status_data)
    IN  IF status = "succeeded" THEN "returned"
        ELSE IF status = "failed" THEN "job_failed"
        ELSE IF status \in {"pending", "running", "processing"} THEN "sleeping"
        ELSE IF status = "None"
             THEN IF Len(status_data.outputs) > 0 THEN "returned" ELSE "sleeping"
             ELSE "sleeping"

\* Faulty variant: the loop runs once more than max_attempts.
loop_condition_inclusive(n, limit) == n <= limit

\* `while attempt < max_attempts`
loop_condition(n, limit) == n < limit

\* Faulty variant: a failed request is taken for a job that is still running.
on_request_exception_retry == "sleeping"

\* `except requests.exceptions.RequestException`: re-raised, the poll ends.
on_request_exception == "transport_error"

\* `x or default`
OrDefault(x, default) == IF x # 0 THEN x ELSE default

VARIABLES
    api,                \* "base" (the inherited poller) or "photoshop"
    arg_poll_interval,  \* poll_interval as passed by the caller
    arg_max_attempts,   \* max_attempts as passed by the caller
    poll_interval,      \* the local poll_interval
    max_attempts,       \* the local max_attempts
    attempt,
    ppc,                \* position of the poller
    status_data,        \* the last status response received
    result,             \* the value returned
    raised_msg,         \* the message of the exception raised
    reported,           \* the seconds the time-out exception reports
    checks,             \* status checks (requests.get) issued
    sleeps,             \* time.sleep(poll_interval) calls made
    sleep_time,         \* total time slept between polls
    gate_passes,        \* wait_if_needed calls made
    seen,               \* classes of the responses received before the last
    failures            \* status checks that failed in transport

pollVars == <<api, arg_poll_interval, arg_max_attempts, poll_interval,
              max_attempts, attempt, ppc, status_data, result, raised_msg,
              reported, checks, sleeps, sleep_time, gate_passes, seen,
              failures>>

\* BaseAdobeAPI._get_rate_limit_name of the Firefly client, the user of the
\* inherited poller.
PollLimiterName == "adobe_firefly"

\* How the spec's poller (section 4.4, steps 3 and 4) reads a response.
ResponseClass(r) ==
    LET status == extract_status(r)
    IN  IF status = STATUS_SUCCEEDED THEN "succeeded"
        ELSE IF status = STATUS_FAILED THEN "failed"
        ELSE IF status \in InProgressCodes THEN "in_progress"
        ELSE IF status = "None" /\ Len(r.outputs) > 0 THEN "inferred"
        ELSE "unknown"

PollIdle ==
    /\ api = "base"
    /\ arg_poll_interval = 0 /\ arg_max_attempts = 0
    /\ poll_interval = 0 /\ max_attempts = 0
    /\ attempt = 0
    /\ ppc = "idle"
    /\ status_data = NoResponse /\ result = NoResponse
    /\ raised_msg = "" /\ reported = 0
    /\ checks = 0 /\ sleeps = 0 /\ sleep_time = 0 /\ gate_passes = 0
    /\ seen = {} /\ failures = 0

\* poll_job_status is called.
PollInit ==
    /\ api \in {"base", "photoshop"}
    /\ arg_poll_interval \in 0..MaxIntervalArg
    /\ arg_max_attempts \in 0..MaxAttemptsArg
    /\ poll_interval = 0 /\ max_attempts = 0
    /\ attempt = 0
    /\ ppc = "entry"
    /\ status_data = NoResponse /\ result = NoResponse
    /\ raised_msg = "" /\ reported = 0
    /\ checks = 0 /\ sleeps = 0 /\ sleep_time = 0 /\ gate_passes = 0
    /\ seen = {} /\ failures = 0

\* Up to `attempt = 0`: the base poller replaces falsy arguments by the
\* configured defaults, the override uses its arguments as they are.
PollEntry ==
    /\ ppc = "entry"
    /\ poll_interval' = IF api = "base"
                        THEN OrDefault(arg_poll_interval, DEFAULT_POLL_INTERVAL)
                        ELSE arg_poll_interval
    /\ max_attempts' = IF api = "base"
                       THEN OrDefault(arg_max_attempts, DEFAULT_MAX_ATTEMPTS)
                       ELSE arg_max_attempts
    /\ attempt' = 0
    /\ ppc' = "loop"
    /\ UNCHANGED <<api, arg_poll_interval, arg_max_attempts, status_data, result,
                   raised_msg, reported, checks, sleeps, sleep_time, gate_passes,
                   seen, failures>>
    /\ UNCHANGED gateVars

\* `while attempt < max_attempts` holds; the base poller then passes the gate
\* (wait_if_needed on its limiter), the override goes straight to the request.
PollLoop ==
    /\ ppc = "loop"
    /\ loop_condition(attempt, max_attempts)
    /\ IF api = "base" /\ ENABLE_RATE_LIMITING
       THEN /\ IF Registered(PollLimiterName)
                   THEN LET res == RateLimiter_get_wait_time(
                                       limiters[PollLimiterName], 1, now)
                        IN  /\ limiters' = [limiters EXCEPT
                                               ![PollLimiterName] = res.lim]
                            /\ now' = now + wait_if_needed(res.wait_time)
                   ELSE /\ limiters' = limiters
                        /\ now' = now + wait_if_needed(NoLimiterConfigured.wait_time)
            /\ gate_passes' = gate_passes + 1
       ELSE UNCHANGED <<limiters, now, gate_passes>>
    /\ ppc' = "request"
    /\ UNCHANGED <<api, arg_poll_interval, arg_max_attempts, poll_interval,
                   max_attempts, attempt, status_data, result, raised_msg,
                   reported, checks, sleeps, sleep_time, seen, failures>>
    /\ UNCHANGED <<lock, pc, op, opsDone, ret, tries, committed, slept, wakeAt,
                   admitLog, snap>>

\* The loop ends with the attempts used up: the final raise.
PollTimeout ==
    /\ ppc = "loop"
    /\ ~loop_condition(attempt, max_attempts)
    /\ ppc' = "timed_out"
    /\ reported' = max_attempts * poll_interval
    /\ raised_msg' = "Job did not complete"
    /\ UNCHANGED <<api, arg_poll_interval, arg_max_attempts, poll_interval,
                   max_attempts, attempt, status_data, result, checks, sleeps,
                   sleep_time, gate_passes, seen, failures>>
    /\ UNCHANGED gateVars

\* requests.get / raise_for_status / json raise a RequestException: it is
\* caught and re-raised as "Error polling job status".
PollTransportFailure ==
    /\ ppc = "request"
    /\ checks' = checks + 1
    /\ failures' = failures + 1
    /\ ppc' = on_request_exception
    /\ raised_msg' = "Error polling job status"
    /\ UNCHANGED <<api, arg_poll_interval, arg_max_attempts, poll_interval,
                   max_attempts, attempt, status_data, result, reported, sleeps,
                   sleep_time, gate_passes, seen>>
    /\ UNCHANGED gateVars

\* The status check answers; the poller classifies the response and returns,
\* raises, or calls time.sleep(poll_interval).
PollResponse ==
    /\ ppc = "request"
    /\ \E r \in Responses :
        LET outcome == IF api = "base" THEN base_outcome(r)
                       ELSE photoshop_outcome(r)
        IN  /\ status_data' = r
            /\ checks' = checks + 1
            /\ seen' = IF checks = 0 THEN {}
                       ELSE seen \cup {ResponseClass(status_data)}
            /\ ppc' = outcome
            /\ result' = IF outcome = "returned" THEN r ELSE result
            /\ raised_msg' = IF outcome = "job_failed" THEN error_msg(r)
                             ELSE raised_msg
            /\ sleeps' = IF outcome = "sleeping" THEN sleeps + 1 ELSE sleeps
    /\ UNCHANGED <<api, arg_poll_interval, arg_max_attempts, poll_interval,
                   max_attempts, attempt, reported, sleep_time, gate_passes,
                   failures>>
    /\ UNCHANGED gateVars

\* time.sleep(poll_interval) returns; attempt += 1.
PollWake ==
    /\ ppc = "sleeping"
    /\ now' = now + poll_interval
    /\ sleep_time' = sleep_time + poll_interval
    /\ attempt' = attempt + 1
    /\ ppc' = "loop"
    /\ UNCHANGED <<api, arg_poll_interval, arg_max_attempts, poll_interval,
                   max_attempts, status_data, result, raised_msg, reported,
                   checks, sleeps, gate_passes, seen, failures>>
    /\ UNCHANGED <<limiters, lock, pc, op, opsDone, ret, tries, committed, slept,
                   wakeAt, admitLog, snap>>

PollNext ==
    \/ PollEntry
    \/ PollLoop
    \/ PollTimeout
    \/ PollTransportFailure
    \/ PollResponse
    \/ PollWake

\* The registry when the poller is called: the poller's limiter, a sliding
\* window, is empty or was filled an instant ago by other callers.
PollGateInit ==
    /\ now = 0
    /\ \E i \in DOMAIN DefaultTable : \E filled \in BOOLEAN :
        /\ DefaultTable[i].name = PollLimiterName
        /\ LET reg == add_limiter(<< >>, PollLimiterName, DefaultTable[i].config, 0)
               full == [k \in 1..reg[PollLimiterName].max_requests |-> 0]
           IN  limiters = IF filled
                          THEN [reg EXCEPT ![PollLimiterName].requests = full]
                          ELSE reg
    /\ lock = [n \in Names |-> 0]
    /\ pc = [c \in Callers |-> "idle"]
    /\ op = [c \in Callers |-> NoOp]
    /\ opsDone = 0
    /\ ret = [c \in Callers |-> NoRet]
    /\ tries = [c \in Callers |-> 0]
    /\ committed = [c \in Callers |-> 0]
    /\ slept = [c \in Callers |-> 0]
    /\ wakeAt = [c \in Callers |-> 0]
    /\ admitLog = << >>
    /\ snap = [c \in Callers |-> NoRet]

\* ------------------------------------------- one limiter, called directly

\* The budget a limiter grants in one window / burst.
CapacityOf(limiter) ==
    IF limiter.kind = "token_bucket" THEN limiter.capacity ELSE limiter.max_requests


LimMaxTime == 11     \* last tick of the clock in the direct-call behaviours

\* The n a direct caller asks for.
LimTokens == {1, 2}

\* The limiters exercised by direct calls: token buckets of capacity 5 and 2
\* refilled by one step per tick (one token per TokenScale ticks, so that a
\* second of a bucket with refill_rate 1.0 is TokenScale ticks), a sliding
\* window of 3 requests per 10 ticks and a fixed window of 2 requests per 5;
\* and a bucket of capacity 1, of which 2 tokens are more than it can hold.
LimTable ==
    <<RateLimitConfig(5, 10, "token_bucket", 5, 1),
      RateLimitConfig(2, 4, "token_bucket", 2, 1),
      RateLimitConfig(3, 10, "sliding_window", 0, 0),
      RateLimitConfig(2, 5, "fixed_window", 0, 0),
      RateLimitConfig(1, 2, "token_bucket", 1, 1)>>

LimName == "adobe_auth"

VARIABLES
    lim_call,    \* the last call made on the limiter, with the instance before
                 \* it and the answer lim_waits held for its n
    lim_waits,   \* n -> the last get_wait_time(n) answer since the last grant
    fresh_run,   \* the single-unit acquires made at once on the new instance
    drain_run,   \* the single-unit acquires made at once after a drained bucket waited
    lim_grants   \* the times at which a sliding window granted an acquire

limVars == <<lim_call, lim_waits, fresh_run, drain_run, lim_grants>>

NoWait == [seen |-> FALSE, value |-> 0]

NoCall(limiter) ==
    [method |-> "none", tokens |-> 0, t |-> 0, ok |-> FALSE, wait_time |-> 0,
     before |-> limiter, prev |-> NoWait]

NoRun == [valid |-> FALSE, t0 |-> 0, t |-> 0, calls |-> 0, grants |-> 0]

\* No direct caller: the state of these variables in the other behaviours.
LimIdle ==
    /\ lim_call = NoCall(NoRet)
    /\ lim_waits = [n \in LimTokens |-> NoWait]
    /\ fresh_run = NoRun
    /\ drain_run = NoRun
    /\ lim_grants = << >>

\* add_limiter has just created the instance; nobody has called it yet.
LimInit ==
    /\ now = 0
    /\ \E i \in DOMAIN LimTable :
           limiters = add_limiter(<< >>, LimName, LimTable[i], 0)
    /\ lock = [n \in Names |-> 0]
    /\ pc = [c \in Callers |-> "idle"]
    /\ op = [c \in Callers |-> NoOp]
    /\ opsDone = 0
    /\ ret = [c \in Callers |-> NoRet]
    /\ tries = [c \in Callers |-> 0]
    /\ committed = [c \in Callers |-> 0]
    /\ slept = [c \in Callers |-> 0]
    /\ wakeAt = [c \in Callers |-> 0]
    /\ admitLog = << >>
    /\ snap = [c \in Callers |-> NoRet]
    /\ lim_call = NoCall(limiters[LimName])
    /\ lim_waits = [n \in LimTokens |-> NoWait]
    /\ fresh_run = [NoRun EXCEPT !.valid = TRUE]
    /\ drain_run = NoRun
    /\ lim_grants = << >>

\* A run of single-unit acquires made at one instant, one call longer.  The
\* run is given up when the call is not acquire(1), when time has passed since
\* the run began, or when it is already longer than `longest`.
RunStep(run, tokens, ok, longest) ==
    IF run.valid /\ tokens = 1 /\ (run.calls = 0 \/ run.t = now)
         /\ run.calls < longest
    THEN [run EXCEPT !.t = now, !.calls = @ + 1,
                     !.grants = IF ok THEN @ + 1 ELSE @]
    ELSE NoRun

\* limiter.acquire(tokens) / limiter.acquire(), called at `now`.
LimAcquire(n) ==
    LET limiter == limiters[LimName]
        res == RateLimiter_acquire(limiter, n, now)
        longest == CapacityOf(limiter) + 1
        continues == drain_run.valid /\ n = 1
                        /\ (drain_run.calls = 0 \/ drain_run.t = now)
                        /\ drain_run.calls < longest
        drained == res.ok /\ res.lim.kind = "token_bucket" /\ res.lim.tokens = 0
    IN  /\ limiters' = [limiters EXCEPT ![LimName] = res.lim]
        /\ lim_call' = [method |-> "acquire", tokens |-> n, t |-> now,
                        ok |-> res.ok, wait_time |-> 0, before |-> limiter,
                        prev |-> lim_waits[n]]
        /\ lim_waits' = IF res.ok THEN [m \in LimTokens |-> NoWait] ELSE lim_waits
        /\ fresh_run' = RunStep(fresh_run, n, res.ok, longest)
        /\ drain_run' = IF continues THEN RunStep(drain_run, n, res.ok, longest)
                        ELSE IF drained THEN [NoRun EXCEPT !.valid = TRUE, !.t0 = now]
                        ELSE NoRun
        /\ lim_grants' = IF res.ok /\ limiter.kind = "sliding_window"
                         THEN Append(lim_grants, now)
                         ELSE lim_grants
        /\ UNCHANGED <<now, lock, pc, op, opsDone, ret, tries, committed, slept,
                       wakeAt, admitLog, snap>>
        /\ UNCHANGED pollVars

\* limiter.get_wait_time(tokens) / limiter.get_wait_time(), called at `now`.
LimGetWaitTime(n) ==
    LET limiter == limiters[LimName]
        res == RateLimiter_get_wait_time(limiter, n, now)
    IN  /\ limiters' = [limiters EXCEPT ![LimName] = res.lim]
        /\ lim_call' = [method |-> "get_wait_time", tokens |-> n, t |-> now,
                        ok |-> FALSE, wait_time |-> res.wait_time,
                        before |-> limiter, prev |-> lim_waits[n]]
        /\ lim_waits' = [lim_waits EXCEPT
                            ![n] = [seen |-> TRUE, value |-> res.wait_time]]
        /\ fresh_run' = NoRun
        /\ drain_run' = NoRun
        /\ UNCHANGED lim_grants
        /\ UNCHANGED <<now, lock, pc, op, opsDone, ret, tries, committed, slept,
                       wakeAt, admitLog, snap>>
        /\ UNCHANGED pollVars

\* time.time() moves on between two calls.
LimTick ==
    /\ now < LimMaxTime
    /\ now' = now + 1
    /\ UNCHANGED <<limiters, lock, pc, op, opsDone, ret, tries, committed,
                   slept, wakeAt, admitLog, snap>>
    /\ UNCHANGED pollVars
    /\ UNCHANGED limVars

LimNext ==
    \/ \E n \in LimTokens : LimAcquire(n)
    \/ \E n \in LimTokens : LimGetWaitTime(n)
    \/ LimTick

\* The thread that runs poll_job_status, or the one that asks for the status
\* report; the other callers are free.
Poller == 1

\* ------------------------------------------- get_rate_limit_status

VARIABLES
    spc,      \* position of the thread that calls get_rate_limit_status
    rl_status,  \* the dict `status` it is building: name -> entry
    todo,     \* the names its loop has still to visit
    partial,  \* request_count as read for the fixed-window entry under way
    at,       \* name -> the instance when the reads for its entry began
    torn      \* names whose instance changed between the reads of their entry

statVars == <<spc, rl_status, todo, partial, at, torn>>

\* Nobody calls get_rate_limit_status.
StatIdle ==
    /\ spc = "idle"
    /\ rl_status = << >>
    /\ todo = {}
    /\ partial = 0
    /\ at = << >>
    /\ torn = {}

\* Faulty variant: the entry reports the counters brought up to date (tokens
\* refilled, old requests dropped) instead of the stored ones.
status_entry_refreshed(limiter) ==
    IF limiter.kind = "token_bucket"
    THEN [type |-> "token_bucket",
          tokens_available |-> TokenBucket_refill(limiter, now).tokens,
          capacity |-> limiter.capacity, refill_rate |-> limiter.refill_rate]
    ELSE [type |-> "sliding_window",
          requests_in_window |->
              Len(PopOld(limiter.requests, now - limiter.time_window)),
          max_requests |-> limiter.max_requests,
          time_window |-> limiter.time_window]

\* The entry get_rate_limit_status builds for a token bucket or a sliding
\* window: one read of the one field that changes.
status_entry(limiter) ==
    IF limiter.kind = "token_bucket"
    THEN [type |-> "token_bucket", tokens_available |-> limiter.tokens,
          capacity |-> limiter.capacity, refill_rate |-> limiter.refill_rate]
    ELSE [type |-> "sliding_window", requests_in_window |-> Len(limiter.requests),
          max_requests |-> limiter.max_requests,
          time_window |-> limiter.time_window]

\* The entry for a fixed window: request_count as read first, window_start as
\* read after it.
status_entry_fixed(request_count, limiter) ==
    [type |-> "fixed_window", request_count |-> request_count,
     max_requests |-> limiter.max_requests,
     window_start |-> limiter.window_start,
     time_window |-> limiter.time_window]

\* The dict with one more key.
WithEntry(d, name, entry) ==
    [n \in (DOMAIN d) \cup {name} |-> IF n = name THEN entry ELSE d[n]]

\* `for name, limiter in rate_limiter.limiters.items()`: the dict is visited
\* in the order of insertion, which is the order of the table.
NextName(names) ==
    LET i == CHOOSE k \in DOMAIN DefaultTable :
                 /\ DefaultTable[k].name \in names
                 /\ \A m \in DOMAIN DefaultTable :
                        DefaultTable[m].name \in names => k <= m
    IN  DefaultTable[i].name

\* get_rate_limit_status is called: `status = {}` and the loop begins.
StatusCall ==
    /\ spc = "idle"
    /\ spc' = "loop"
    /\ rl_status' = << >>
    /\ todo' = DOMAIN limiters
    /\ UNCHANGED <<partial, at, torn>>
    /\ UNCHANGED gateVars

\* One pass of the loop for a token bucket or a sliding window.
StatusEntry ==
    /\ spc = "loop"
    /\ todo # {}
    /\ LET name == NextName(todo)
       IN  /\ limiters[name].kind # "fixed_window"
           /\ rl_status' = WithEntry(rl_status, name, status_entry(limiters[name]))
           /\ at' = WithEntry(at, name, limiters[name])
           /\ todo' = todo \ {name}
    /\ UNCHANGED <<spc, partial, torn>>
    /\ UNCHANGED gateVars

\* The pass for a fixed window reads limiter.request_count ...
StatusFixedCount ==
    /\ spc = "loop"
    /\ todo # {}
    /\ LET name == NextName(todo)
       IN  /\ limiters[name].kind = "fixed_window"
           /\ partial' = limiters[name].request_count
           /\ at' = WithEntry(at, name, limiters[name])
    /\ spc' = "fixed"
    /\ UNCHANGED <<rl_status, todo, torn>>
    /\ UNCHANGED gateVars

\* ... and then limiter.window_start.
StatusFixedStart ==
    /\ spc = "fixed"
    /\ LET name == NextName(todo)
       IN  /\ rl_status' = WithEntry(rl_status, name,
                                  status_entry_fixed(partial, limiters[name]))
           /\ torn' = IF limiters[name] # at[name] THEN torn \cup {name} ELSE torn
           /\ todo' = todo \ {name}
    /\ spc' = "loop"
    /\ partial' = 0
    /\ UNCHANGED at
    /\ UNCHANGED gateVars

\* `return status`
StatusReturn ==
    /\ spc = "loop"
    /\ todo = {}
    /\ spc' = "returned"
    /\ UNCHANGED <<rl_status, todo, partial, at, torn>>
    /\ UNCHANGED gateVars

StatusStep ==
    \/ StatusCall
    \/ StatusEntry
    \/ StatusFixedCount
    \/ StatusFixedStart
    \/ StatusReturn

\* The reporting thread next to one caller of the gate.
StatusNext ==
    \/ (StatusStep /\ UNCHANGED pollVars /\ UNCHANGED limVars)
    \/ \E c \in Callers \ {Poller} :
           (CallerStep(c) /\ UNCHANGED pollVars /\ UNCHANGED limVars
              /\ UNCHANGED statVars)
    \/ (Tick /\ UNCHANGED pollVars /\ UNCHANGED limVars /\ UNCHANGED statVars)

\* ------------------------------------------------ RateLimiter.add_limiter

VARIABLES
    reg_call  \* the add_limiter call if the last step was one, with the
              \* registry it found

regVars == <<reg_call>>

NoReg == [name |-> "", config |-> NoRet, before |-> << >>, t |-> 0]

\* No add_limiter call has just been made.
RegIdle == reg_call = NoReg

\* The names the program registers limiters under (two of them here).
RegNames == {DefaultTable[1].name, DefaultTable[2].name}

\* Configurations passed to add_limiter: token buckets with and without
\* burst_capacity and refill_rate (the window divides max_requests, so
\* that max_requests / time_window is exact in steps per tick), a sliding
\* window and a fixed window.
RegConfigs ==
    {RateLimitConfig(2, 1, "token_bucket", 0, 0),
     RateLimitConfig(2, 2, "token_bucket", 0, 0),
     RateLimitConfig(2, 2, "token_bucket", 3, 0),
     RateLimitConfig(2, 2, "token_bucket", 0, 1),
     RateLimitConfig(1, 1, "token_bucket", 3, 1),
     RateLimitConfig(2, 3, "sliding_window", 0, 0),
     RateLimitConfig(1, 2, "fixed_window", 0, 0)}

\* RateLimiter.__init__: `self.limiters = {}`.
RegInit ==
    /\ now = 0
    /\ limiters = << >>
    /\ lock = [n \in Names |-> 0]
    /\ pc = [c \in Callers |-> "idle"]
    /\ op = [c \in Callers |-> NoOp]
    /\ opsDone = 0
    /\ ret = [c \in Callers |-> NoRet]
    /\ tries = [c \in Callers |-> 0]
    /\ committed = [c \in Callers |-> 0]
    /\ slept = [c \in Callers |-> 0]
    /\ wakeAt = [c \in Callers |-> 0]
    /\ admitLog = << >>
    /\ snap = [c \in Callers |-> NoRet]
    /\ reg_call = NoReg

\* rate_limiter.add_limiter(name, config), called at `now`.
RegAdd(name, config) ==
    /\ limiters' = add_limiter(limiters, name, config, now)
    /\ reg_call' = [name |-> name, config |-> config, before |-> limiters,
                    t |-> now]
    /\ UNCHANGED <<now, lock, pc, op, opsDone, ret, tries, committed, slept,
                   wakeAt, admitLog, snap>>

\* rate_limiter.acquire(name, tokens) on a registered name, called at `now`.
RegAcquire(name, n) ==
    /\ name \in DOMAIN limiters
    /\ limiters' = [limiters EXCEPT
                       ![name] = RateLimiter_acquire(limiters[name], n, now).lim]
    /\ reg_call' = NoReg
    /\ UNCHANGED <<now, lock, pc, op, opsDone, ret, tries, committed, slept,
                   wakeAt, admitLog, snap>>

\* Time passes between two calls.
RegTick ==
    /\ now < MaxTime
    /\ now' = now + 1
    /\ reg_call' = NoReg
    /\ UNCHANGED <<limiters, lock, pc, op, opsDone, ret, tries, committed,
                   slept, wakeAt, admitLog, snap>>

RegNext ==
    \/ \E name \in RegNames, config \in RegConfigs : RegAdd(name, config)
    \/ \E name \in RegNames, n \in LimTokens : RegAcquire(name, n)
    \/ RegTick

\* ------------------------------------------------------ specifications

vars == <<gateVars, pollVars, limVars, statVars, regVars>>

\* Concurrent callers of the admission gate.
Init == GateInit /\ PollIdle /\ LimIdle /\ StatIdle /\ RegIdle
Next ==
    /\ GateNext
    /\ UNCHANGED pollVars
    /\ UNCHANGED limVars
    /\ UNCHANGED statVars
    /\ UNCHANGED regVars
Spec == Init /\ [][Next]_vars

\* The scheduler runs every thread that can run, and time passes.
FairSpec ==
    /\ Spec
    /\ WF_vars(Tick /\ UNCHANGED <<pollVars, limVars, statVars, regVars>>)
    /\ \A c \in Callers :
           WF_vars(CallerStep(c)
                     /\ UNCHANGED <<pollVars, limVars, statVars, regVars>>)

\* One call of poll_job_status.
InitPoll == PollGateInit /\ PollInit /\ LimIdle /\ StatIdle /\ RegIdle
SpecPoll ==
    InitPoll /\ [][PollNext /\ UNCHANGED <<limVars, statVars, regVars>>]_vars

\* The same, with the poller always taking its next step: a status check
\* ends with an answer or an exception, and time.sleep returns.
\* The long run on the configured default of max_attempts is taken for one
\* poll interval and the empty window only.
InitPollFair ==
    /\ InitPoll
    /\ (api = "base" /\ arg_max_attempts = 0) =>
           /\ arg_poll_interval = 1
           /\ limiters[PollLimiterName].requests = << >>

FairSpecPoll ==
    /\ InitPollFair
    /\ [][PollNext /\ UNCHANGED <<limVars, statVars, regVars>>]_vars
    /\ WF_vars(PollNext /\ UNCHANGED <<limVars, statVars, regVars>>)

\* Direct calls of acquire and get_wait_time on one limiter instance.
InitLimiter == LimInit /\ PollIdle /\ StatIdle /\ RegIdle
SpecLimiter == InitLimiter /\ [][LimNext /\ UNCHANGED <<statVars, regVars>>]_vars

\* Concurrent callers of the gate with two limiters registered, of different
\* or of the same algorithm.
GateInitTwo ==
    /\ now = 0
    /\ \E i, j \in DOMAIN DefaultTable :
           /\ i < j
           /\ limiters = add_limiter(
                             add_limiter(<< >>, DefaultTable[i].name,
                                         DefaultTable[i].config, 0),
                             DefaultTable[j].name, DefaultTable[j].config, 0)
    /\ lock = [n \in Names |-> 0]
    /\ pc = [c \in Callers |-> "idle"]
    /\ op = [c \in Callers |-> NoOp]
    /\ opsDone = 0
    /\ ret = [c \in Callers |-> NoRet]
    /\ tries = [c \in Callers |-> 0]
    /\ committed = [c \in Callers |-> 0]
    /\ slept = [c \in Callers |-> 0]
    /\ wakeAt = [c \in Callers |-> 0]
    /\ admitLog = << >>
    /\ snap = [c \in Callers |-> NoRet]

InitTwo == GateInitTwo /\ PollIdle /\ LimIdle /\ StatIdle /\ RegIdle
SpecTwo == InitTwo /\ [][Next]_vars

RECURSIVE Drained(_, _)
\* The instance after single-unit acquire calls made at time t until one is
\* refused.
Drained(limiter, t) ==
    LET res == RateLimiter_acquire(limiter, 1, t)
    IN  IF res.ok THEN Drained(res.lim, t) ELSE res.lim

\* The registry holds one limiter, new or used up an instant ago by earlier
\* calls; the callers and the log of this run start empty.
GateInitUsed ==
    /\ now = 0
    /\ \E i \in DOMAIN DefaultTable : \E used \in BOOLEAN :
           LET name == DefaultTable[i].name
               reg == add_limiter(<< >>, name, DefaultTable[i].config, 0)
           IN  limiters = IF used
                          THEN [reg EXCEPT ![name] = Drained(reg[name], 0)]
                          ELSE reg
    /\ lock = [n \in Names |-> 0]
    /\ pc = [c \in Callers |-> "idle"]
    /\ op = [c \in Callers |-> NoOp]
    /\ opsDone = 0
    /\ ret = [c \in Callers |-> NoRet]
    /\ tries = [c \in Callers |-> 0]
    /\ committed = [c \in Callers |-> 0]
    /\ slept = [c \in Callers |-> 0]
    /\ wakeAt = [c \in Callers |-> 0]
    /\ admitLog = << >>
    /\ snap = [c \in Callers |-> NoRet]

\* The callers of the gate on a limiter that may have been used up.
InitUsed == GateInitUsed /\ PollIdle /\ LimIdle /\ StatIdle /\ RegIdle
SpecUsed == InitUsed /\ [][Next]_vars

\* ------------------------------- the poller among other callers of the gate

\* rate_limiter.wait_if_needed(self._get_rate_limit_name()) as the poller
\* calls it: the wait-mode path of the gate for one unit.
PollerGateCall ==
    [fn |-> "wait_if_needed", name |-> PollLimiterName, tokens |-> 1, wait |-> TRUE]

\* `while attempt < max_attempts` holds; the base poller enters
\* wait_if_needed, the override goes straight to the request.
PollGateEnter ==
    /\ ppc = "loop"
    /\ loop_condition(attempt, max_attempts)
    /\ IF api = "base" /\ ENABLE_RATE_LIMITING
       THEN /\ op' = [op EXCEPT ![Poller] = PollerGateCall]
            /\ pc' = [pc EXCEPT ![Poller] = "call"]
            /\ ppc' = "gate"
       ELSE /\ ppc' = "request"
            /\ UNCHANGED <<op, pc>>
    /\ UNCHANGED <<api, arg_poll_interval, arg_max_attempts, poll_interval,
                   max_attempts, attempt, status_data, result, raised_msg,
                   reported, checks, sleeps, sleep_time, gate_passes, seen,
                   failures>>
    /\ UNCHANGED <<now, limiters, lock, opsDone, ret, tries, committed, slept,
                   wakeAt, admitLog, snap>>

\* wait_if_needed has returned: the poller goes on to requests.get.
PollGateExit ==
    /\ ppc = "gate"
    /\ pc[Poller] = "func"
    /\ ppc' = "request"
    /\ gate_passes' = gate_passes + 1
    /\ pc' = [pc EXCEPT ![Poller] = "idle"]
    /\ op' = [op EXCEPT ![Poller] = NoOp]
    /\ ret' = [ret EXCEPT ![Poller] = NoRet]
    /\ tries' = [tries EXCEPT ![Poller] = 0]
    /\ committed' = [committed EXCEPT ![Poller] = 0]
    /\ slept' = [slept EXCEPT ![Poller] = 0]
    /\ wakeAt' = [wakeAt EXCEPT ![Poller] = 0]
    /\ UNCHANGED <<api, arg_poll_interval, arg_max_attempts, poll_interval,
                   max_attempts, attempt, status_data, result, raised_msg,
                   reported, checks, sleeps, sleep_time, seen, failures>>
    /\ UNCHANGED <<now, limiters, lock, opsDone, admitLog, snap>>

\* The status responses the job gives while other callers are at work: still
\* running, done, or failed.
PollGateResponses ==
    { Response(st, << >>, "absent", "absent", "absent") :
        st \in {STATUS_RUNNING, STATUS_SUCCEEDED, STATUS_FAILED} }

\* The poller's steps, those inside the gate included (its limiter is
\* registered, so the gate always consults it).
PollerStep ==
    \/ PollEntry
    \/ PollGateEnter
    \/ (Lock(Poller) /\ UNCHANGED pollVars)
    \/ (Body(Poller) /\ UNCHANGED pollVars)
    \/ (Wake(Poller) /\ UNCHANGED pollVars)
    \/ PollGateExit
    \/ PollTimeout
    \/ PollTransportFailure
    \/ (PollResponse /\ status_data' \in PollGateResponses)
    \/ PollWake

PollGateNext ==
    \/ PollerStep
    \/ \E c \in Callers \ {Poller} : (CallerStep(c) /\ UNCHANGED pollVars)
    \/ (Tick /\ UNCHANGED pollVars)

\* poll_job_status is called with a positive interval and one or two attempts
\* allowed; the registry holds the poller's limiter (empty, or filled an
\* instant ago) and one more.
PollGateInitTwo ==
    /\ now = 0
    /\ \E i, j \in DOMAIN DefaultTable : \E filled \in BOOLEAN :
        /\ DefaultTable[i].name = PollLimiterName
        /\ DefaultTable[j].config.algorithm = "token_bucket"
        /\ LET reg == add_limiter(
                         add_limiter(<< >>, PollLimiterName,
                                     DefaultTable[i].config, 0),
                         DefaultTable[j].name, DefaultTable[j].config, 0)
               full == [k \in 1..reg[PollLimiterName].max_requests |-> 0]
           IN  limiters = IF filled
                          THEN [reg EXCEPT ![PollLimiterName].requests = full]
                          ELSE reg
    /\ lock = [n \in Names |-> 0]
    /\ pc = [c \in Callers |-> "idle"]
    /\ op = [c \in Callers |-> NoOp]
    /\ opsDone = 0
    /\ ret = [c \in Callers |-> NoRet]
    /\ tries = [c \in Callers |-> 0]
    /\ committed = [c \in Callers |-> 0]
    /\ slept = [c \in Callers |-> 0]
    /\ wakeAt = [c \in Callers |-> 0]
    /\ admitLog = << >>
    /\ snap = [c \in Callers |-> NoRet]

InitPollGate ==
    /\ PollGateInitTwo
    /\ PollInit
    /\ arg_poll_interval = 1
    /\ arg_max_attempts \in {1, 2}
    /\ LimIdle
    /\ StatIdle
    /\ RegIdle

SpecPollGate ==
    InitPollGate /\ [][PollGateNext /\ UNCHANGED <<limVars, statVars, regVars>>]_vars

\* One call of get_rate_limit_status while a caller uses the gate, with two
\* limiters registered.
SpecStatus == InitTwo /\ [][StatusNext /\ UNCHANGED regVars]_vars

\* One thread that registers limiters, registers them again and acquires
\* from them, starting from the empty registry.
InitRegistry == RegInit /\ PollIdle /\ LimIdle /\ StatIdle
SpecRegistry ==
    InitRegistry
      /\ [][RegNext /\ UNCHANGED <<pollVars, limVars, statVars>>]_vars

\* ------------------------------------------------- properties: gate

\* C1: a caller that passed the gate in wait mode on a registered limiter runs
\* its function only after a successful acquire of its n units was committed
\* on that limiter.
C1_GatePassCommitsAcquire ==
    \A c \in Callers :
        (pc[c] = "func" /\ op[c].fn = "rate_limit" /\ op[c].wait
            /\ Registered(op[c].name))
        => (tries[c] >= 1 /\ ret[c].ok
            /\ committed[c] = Consumed(limiters[op[c].name], op[c].tokens))

RECURSIVE UnitsIn(_, _, _, _)
\* Tokens granted under `name` by the logged acquisitions made in [lo, hi].
UnitsIn(log, name, lo, hi) ==
    IF log = << >> THEN 0
    ELSE (IF Head(log).name = name /\ lo <= Head(log).t /\ Head(log).t <= hi
          THEN Head(log).n ELSE 0)
         + UnitsIn(Tail(log), name, lo, hi)

\* C2: under every interleaving, the acquisitions a token bucket grants within
\* any window shorter than one refill interval (TokenScale / refill_rate ticks)
\* sum to at most its capacity.
C2_BurstWithinCapacity ==
    \A name \in DOMAIN limiters :
        limiters[name].kind = "token_bucket" =>
            \A i, j \in DOMAIN admitLog :
                (i <= j /\ admitLog[i].name = name /\ admitLog[j].name = name
                   /\ (admitLog[j].t - admitLog[i].t) * limiters[name].refill_rate
                        < TokenScale)
                => UnitsIn(admitLog, name, admitLog[i].t, admitLog[j].t)
                     <= limiters[name].capacity

\* C2 witness: a full capacity was granted inside one refill interval and a
\* further acquire by a contending caller was refused.
C2_Witness ==
    \E c \in Callers : \E name \in DOMAIN limiters :
        /\ limiters[name].kind = "token_bucket"
        /\ pc[c] = "raised" /\ ~op[c].wait /\ op[c].name = name
        /\ tries[c] = 1 /\ ~ret[c].ok
        /\ UnitsIn(admitLog, name, now - 1, now) = limiters[name].capacity

\* C3: in non-wait mode the gate makes exactly one acquire and never sleeps;
\* the function runs iff that acquire succeeded, otherwise RateLimitExceeded
\* is raised and the function is not run afterwards.
C3_NonWaitSingleAcquire ==
    /\ [](\A c \in Callers :
            (op[c].fn = "rate_limit" /\ ~op[c].wait) =>
                /\ pc[c] \in {"call", "locked", "func", "raised"}
                /\ slept[c] = 0
                /\ pc[c] \in {"call", "locked"} => tries[c] = 0
                /\ pc[c] = "func" => (tries[c] = 1 /\ ret[c].ok)
                /\ pc[c] = "raised" => (tries[c] = 1 /\ ~ret[c].ok))
    /\ [][\A c \in Callers :
            (pc[c] = "raised" /\ pc'[c] # "raised") => pc'[c] = "idle"]_vars

\* C3 witness: one non-wait caller was admitted and runs its function while
\* another was refused.
C3_Witness ==
    \E c1, c2 \in Callers :
        /\ op[c1].fn = "rate_limit" /\ ~op[c1].wait /\ pc[c1] = "func"
        /\ op[c2].fn = "rate_limit" /\ ~op[c2].wait /\ pc[c2] = "raised"
        /\ op[c1].name = op[c2].name /\ Registered(op[c1].name)

\* A caller inside the gate in wait mode, on a registered limiter, asking for
\* no more than the limiter's capacity.
WaitingAtGate(c) ==
    /\ op[c].fn = "rate_limit" /\ op[c].wait
    /\ pc[c] \in {"call", "locked", "sleeping"}
    /\ Registered(op[c].name)
    /\ op[c].tokens <= CapacityOf(limiters[op[c].name])

\* C4: in wait mode the gate never raises RateLimitExceeded, and every caller
\* waiting at the gate eventually runs its function.
C4_WaitModeEventuallyRuns ==
    /\ [](\A c \in Callers : pc[c] = "raised" => ~op[c].wait)
    /\ \A c \in Callers : WaitingAtGate(c) ~> (pc[c] = "func")

\* C4 witness: a wait-mode caller runs its function after the gate made it
\* sleep.
C4_Witness ==
    \E c \in Callers :
        /\ op[c].fn = "rate_limit" /\ op[c].wait /\ Registered(op[c].name)
        /\ pc[c] = "func" /\ slept[c] > 0

\* C5: for a name without a limiter, acquire answers true and get_wait_time 0,
\* the gate admits without sleeping or raising in either mode, and the step
\* changes neither the registry nor any limiter or lock.
C5_FailOpen ==
    /\ [](\A c \in Callers :
            (~Registered(op[c].name)
               /\ pc[c] \in {"func", "raised", "sleeping"}) =>
                /\ Method(op[c]) = "acquire" => ret[c].ok
                /\ Method(op[c]) = "get_wait_time" => ret[c].wait_time = 0
                /\ pc[c] \notin {"raised", "sleeping"}
                /\ slept[c] = 0)
    /\ [][\A c \in Callers :
            (pc[c] = "call" /\ ~Registered(op[c].name) /\ pc'[c] # "call")
                => UNCHANGED <<limiters, lock>>]_vars

\* C5 witness: two callers passed the gate on an unregistered name, one in
\* wait mode and one in non-wait mode.
C5_Witness ==
    \E c1, c2 \in Callers :
        /\ ~Registered(op[c1].name) /\ ~Registered(op[c2].name)
        /\ op[c1].fn = "rate_limit" /\ op[c1].wait /\ pc[c1] = "func"
        /\ op[c2].fn = "rate_limit" /\ ~op[c2].wait /\ pc[c2] = "func"


\* ----------------------------------------------- properties: poller

\* The poller has just classified the response held in status_data.
Processed == ppc \in {"returned", "job_failed", "sleeping"}

\* C6: after k in-progress responses, a response with the success code makes
\* the poller return that response unchanged, having made k+1 status checks
\* and k sleeps of poll_interval; the in-progress responses before it each
\* made it sleep, not stop.
C6_ReturnsOnSuccess ==
    /\ (Processed /\ seen \subseteq {"in_progress"}
          /\ extract_status(status_data) = STATUS_SUCCEEDED)
       => /\ ppc = "returned"
          /\ result = status_data
          /\ checks <= max_attempts
          /\ sleeps = checks - 1
          /\ sleep_time = (checks - 1) * poll_interval
    /\ (Processed /\ seen \subseteq {"in_progress"}
          /\ ResponseClass(status_data) = "in_progress")
       => (ppc = "sleeping" /\ sleeps = checks)

\* C6 witness: running, running, succeeded (with outputs) gave two sleeps and
\* the third response.
C6_Witness ==
    /\ ppc = "returned" /\ checks = 3 /\ sleeps = 2
    /\ seen = {"in_progress"}
    /\ status_data.status = STATUS_SUCCEEDED /\ Len(status_data.outputs) > 0
    /\ result = status_data

\* C7: a response with the failure code ends the poll on that attempt with
\* the error raised, its message the response's error field or else its
\* message field, without a sleep for that attempt and without a further
\* status check.
C7_FailsOnFailureCode ==
    /\ []((Processed /\ extract_status(status_data) = STATUS_FAILED)
          => /\ ppc = "job_failed"
             /\ status_data.error # "absent" => raised_msg = status_data.error
             /\ (status_data.error = "absent" /\ status_data.message # "absent")
                   => raised_msg = status_data.message
             /\ sleeps = checks - 1
             /\ result = NoResponse)
    /\ [][ppc = "job_failed" => (checks' = checks /\ sleeps' = sleeps
                                    /\ ppc' = "job_failed")]_vars

\* C7 witness: the first response is {status: failed, error: "bad input"} and
\* the poll ended after that one attempt.
C7_Witness ==
    /\ ppc = "job_failed" /\ checks = 1 /\ sleeps = 0
    /\ status_data.status = STATUS_FAILED /\ status_data.error = "bad input"
    /\ raised_msg = "bad input"

\* C8: a response that is in progress, or unrecognised / null with empty
\* outputs, keeps the poller polling with a sleep; when all max_attempts
\* responses were such, the poll ends timed out after exactly max_attempts
\* status checks and sleeps, reporting max_attempts * poll_interval.
C8_TimesOutAfterMaxAttempts ==
    /\ (Processed /\ ResponseClass(status_data) \in {"in_progress", "unknown"})
       => ppc = "sleeping"
    /\ ppc \notin {"idle", "entry"} => checks <= max_attempts
    /\ (ppc = "timed_out"
          /\ (seen \cup {ResponseClass(status_data)}) \subseteq {"in_progress", "unknown"})
       => /\ checks = max_attempts
          /\ sleeps = max_attempts
          /\ sleep_time = max_attempts * poll_interval
          /\ reported = max_attempts * poll_interval
          /\ result = NoResponse

\* C8 witness: max_attempts = 3 and three pending responses ended in the
\* time-out.
C8_Witness ==
    /\ ppc = "timed_out" /\ max_attempts = 3 /\ checks = 3
    /\ seen = {"in_progress"} /\ status_data.status = STATUS_PENDING
    /\ reported = 3 * poll_interval /\ poll_interval > 0

\* C9: a response without a status field but with non-empty outputs, in which
\* no status is found, makes every poller return it at once as success.
C9_InferredSuccess ==
    (Processed /\ status_data.status = "absent" /\ Len(status_data.outputs) > 0
       /\ extract_status(status_data) = "None")
    => (ppc = "returned" /\ result = status_data)

\* C10: a status check that fails in transport ends the poll with an error at
\* once: no sleep for that attempt, no retry, no further status check.
C10_TransportFailureAborts ==
    /\ [](failures > 0
          => /\ ppc = "transport_error"
             /\ failures = 1
             /\ sleeps = checks - 1
             /\ attempt = checks - 1
             /\ result = NoResponse)
    /\ [][failures > 0 => (checks' = checks /\ sleeps' = sleeps)]_vars

\* C10 witness: the second status check failed in transport, after one sleep.
C10_Witness ==
    /\ ppc = "transport_error" /\ checks = 2 /\ sleeps = 1 /\ failures = 1

\* C11: on every attempt of either poller a pass through the gate
\* (wait_if_needed on the service's limiter name) precedes the status check:
\* a status check is being issued only with one more gate pass made than
\* status checks issued, and there are never fewer gate passes than checks.
C11_GatePassBeforeEveryCheck ==
    /\ ppc = "request" => gate_passes = checks + 1
    /\ gate_passes >= checks

\* The status found by trying, in order, the top-level status field, the
\* status of outputs[0] and the status under job, using the first location
\* that yields one.
FirstStatus(r) ==
    IF Get(r.status) # "None" THEN r.status
    ELSE IF Len(r.outputs) > 0 /\ Get(r.outputs[1].status) # "None"
         THEN r.outputs[1].status
         ELSE Get(r.job)

\* The status the running poller extracts from a response.
PollerStatus(r) ==
    IF api = "base" THEN extract_status(r) ELSE photoshop_extract_status(r)

\* C12: the status a poller extracts is the first one found among the three
\* locations; a response whose outputs[0] has no status and whose job status
\* is the failure code ends the poll as failed.
C12_FirstLocationThatYields ==
    Processed =>
        /\ PollerStatus(status_data) = FirstStatus(status_data)
        /\ (status_data.status = "absent" /\ Len(status_data.outputs) > 0
              /\ status_data.outputs[1].status = "absent"
              /\ status_data.job = STATUS_FAILED)
           => ppc = "job_failed"

\* How a response is classified from the status found in it: the success or
\* failure code, an in-progress code, success inferred from non-empty outputs
\* when no status is found, or unknown.
Classification(r) ==
    LET status == FirstStatus(r)
    IN  IF status = STATUS_SUCCEEDED THEN "succeeded"
        ELSE IF status = STATUS_FAILED THEN "failed"
        ELSE IF status \in InProgressCodes THEN "in_progress"
        ELSE IF status = "None" /\ Len(r.outputs) > 0 THEN "inferred"
        ELSE "unknown"

\* C13: the poller returns only on a last response classified as success
\* (explicit or inferred), returning that response; a response reporting the
\* failure code ends in the raised error, and a poll that failed or timed out
\* has returned nothing.
C13_ErrorsSurfaced ==
    /\ ppc = "returned"
          => /\ Classification(status_data) \in {"succeeded", "inferred"}
             /\ result = status_data
    /\ (Processed /\ Classification(status_data) = "failed")
          => ppc = "job_failed"
    /\ ppc \in {"job_failed", "timed_out"}
          => (result = NoResponse /\ raised_msg # "")

\* ------------------------------------------- properties: limiters

\* C14: get_wait_time of every limiter variant answers a value >= 0, at every
\* time and in every state of the limiter.
C14_WaitTimeNonNegative ==
    lim_call.method = "get_wait_time" => lim_call.wait_time >= 0

\* C15: of two get_wait_time calls with the same n, the later made no earlier
\* than the first and with no admission granted in between, the later answers
\* no more than the first.
C15_WaitTimeNonIncreasing ==
    (lim_call.method = "get_wait_time" /\ lim_call.prev.seen)
        => lim_call.wait_time <= lim_call.prev.value

\* C15 witness: a get_wait_time call made later than the one before it, with
\* no admission in between, answered strictly less and still more than 0.
C15_Witness ==
    /\ lim_call.method = "get_wait_time" /\ lim_call.prev.seen
    /\ lim_call.wait_time < lim_call.prev.value
    /\ lim_call.wait_time > 0

\* The instance the last call left behind.
LimAfter == limiters[LimName]

\* The tokens of bucket b once refilled at time t: elapsed * refill_rate more,
\* at most the capacity.
Refilled(b, t) ==
    LET more == b.tokens + (t - b.last_refill) * b.refill_rate
    IN  IF more > Units(b.capacity) THEN Units(b.capacity) ELSE more

\* C16: every acquire and get_wait_time call of a token bucket leaves the
\* tokens refilled (capped at capacity) and last_refill at the time of the
\* call; acquire(n) answers true iff the refilled tokens are >= n and then
\* deducts exactly n, otherwise deducts nothing; get_wait_time(n) answers
\* max(0, (n - tokens) / refill_rate) and deducts nothing.
C16_TokenBucketCalls ==
    (lim_call.method # "none" /\ lim_call.before.kind = "token_bucket") =>
        LET b == lim_call.before
            have == Refilled(b, lim_call.t)
            need == Units(lim_call.tokens)
        IN  /\ LimAfter.last_refill = lim_call.t
            /\ lim_call.method = "acquire" =>
                 /\ lim_call.ok <=> have >= need
                 /\ LimAfter.tokens = IF have >= need THEN have - need ELSE have
            /\ lim_call.method = "get_wait_time" =>
                 /\ LimAfter.tokens = have
                 /\ lim_call.wait_time * b.refill_rate
                       = (IF need > have THEN need - have ELSE 0)

\* C16 witness: a get_wait_time(2) call found a partly refilled bucket and
\* answered a positive wait.
C16_Witness ==
    /\ lim_call.method = "get_wait_time" /\ lim_call.tokens = 2
    /\ lim_call.before.kind = "token_bucket"
    /\ lim_call.before.last_refill < lim_call.t
    /\ lim_call.before.tokens < LimAfter.tokens
    /\ lim_call.wait_time > 0

\* C17: of k single-unit acquires made at once on a new token bucket, the
\* first min(k, capacity) succeed and any further one fails.
C17_FreshBucketIsFull ==
    (fresh_run.valid /\ LimAfter.kind = "token_bucket") =>
        fresh_run.grants = Min(fresh_run.calls, LimAfter.capacity)

\* C17 witness: capacity + 1 acquires at once on a new bucket of capacity 5,
\* of which the last was refused.
C17_Witness ==
    /\ fresh_run.valid /\ LimAfter.kind = "token_bucket"
    /\ LimAfter.capacity = 5
    /\ fresh_run.calls = 6 /\ fresh_run.grants = 5
    /\ ~lim_call.ok

\* The single-unit requests a drained bucket can admit d ticks later.
AdmittedAfter(b, d) == Min(b.capacity, (d * b.refill_rate) \div TokenScale)

\* C18: a drained token bucket, d later, admits exactly
\* min(capacity, floor(d * refill_rate)) single-unit requests made at once;
\* with capacity 5 and one token per second, after 1 <= d < 2 seconds it
\* admits one and refuses the next.
C18_DrainedBucketRefill ==
    (drain_run.valid /\ drain_run.calls > 0) =>
        LET d == drain_run.t - drain_run.t0
        IN  /\ drain_run.grants = Min(drain_run.calls, AdmittedAfter(LimAfter, d))
            /\ (LimAfter.capacity = 5 /\ LimAfter.refill_rate = 1
                  /\ TokenScale <= d /\ d < 2 * TokenScale)
               => drain_run.grants = Min(drain_run.calls, 1)

\* C18 witness: the bucket of capacity 5 was drained, and between one and two
\* seconds later one request was admitted and the next refused.
C18_Witness ==
    /\ drain_run.valid /\ LimAfter.capacity = 5 /\ LimAfter.refill_rate = 1
    /\ drain_run.t - drain_run.t0 >= TokenScale
    /\ drain_run.t - drain_run.t0 < 2 * TokenScale
    /\ drain_run.calls = 2 /\ drain_run.grants = 1 /\ ~lim_call.ok

\* The requests a sliding window still stores after acquire's eviction.
KeptBy(after, ok) ==
    IF ok THEN SubSeq(after.requests, 1, Len(after.requests) - 1)
    ELSE after.requests

\* C19: acquire of a sliding window first drops the stored timestamps that
\* have aged out of the window (none younger than time_window is dropped, none
\* older is kept), then answers true iff fewer than max_requests remain, and
\* then appends the time of the call; with 3 requests per 10 and three
\* admissions at 0, a call at 5 is refused and a call at 11 is admitted.
C19_SlidingWindowAcquire ==
    (lim_call.method = "acquire" /\ lim_call.before.kind = "sliding_window") =>
        LET b == lim_call.before
            t == lim_call.t
            kept == KeptBy(LimAfter, lim_call.ok)
            dropped == Len(b.requests) - Len(kept)
        IN  /\ dropped >= 0
            /\ kept = SubSeq(b.requests, dropped + 1, Len(b.requests))
            /\ \A i \in 1..dropped : b.requests[i] <= t - b.time_window
            /\ \A i \in DOMAIN kept : kept[i] >= t - b.time_window
            /\ lim_call.ok <=> Len(kept) < b.max_requests
            /\ lim_call.ok => LimAfter.requests = Append(kept, t)
            /\ (b.max_requests = 3 /\ b.time_window = 10
                  /\ b.requests = <<0, 0, 0>>)
               => /\ t = 5 => ~lim_call.ok
                  /\ t = 11 => lim_call.ok

\* C19 witness: after three admissions at 0, the call at 11 was admitted once
\* the three had been dropped.
C19_Witness ==
    /\ lim_call.method = "acquire" /\ lim_call.ok /\ lim_call.t = 11
    /\ lim_call.before.kind = "sliding_window"
    /\ lim_call.before.requests = <<0, 0, 0>>
    /\ LimAfter.requests = <<11>>

\* C20: acquire of a fixed window first resets request_count to 0 and
\* window_start to the time of the call when that time is time_window or more
\* past window_start, then answers true iff request_count < max_requests and
\* adds one to it on success; with 2 requests per 5, a call at 6 after the
\* window that started at 0 was used up is admitted.
C20_FixedWindowAcquire ==
    (lim_call.method = "acquire" /\ lim_call.before.kind = "fixed_window") =>
        LET b == lim_call.before
            t == lim_call.t
            expired == t - b.window_start >= b.time_window
            count == IF expired THEN 0 ELSE b.request_count
        IN  /\ LimAfter.window_start = (IF expired THEN t ELSE b.window_start)
            /\ lim_call.ok <=> count < b.max_requests
            /\ LimAfter.request_count = (IF lim_call.ok THEN count + 1 ELSE count)
            /\ (b.max_requests = 2 /\ b.time_window = 5 /\ b.window_start = 0)
               => /\ (t = 0 /\ b.request_count < 2) => lim_call.ok
                  /\ (t < 5 /\ b.request_count = 2) => ~lim_call.ok
                  /\ t = 6 => lim_call.ok

\* C20 witness: the window that started at 0 had admitted its two requests,
\* and the call at 6 was admitted into a new window.
C20_Witness ==
    /\ lim_call.method = "acquire" /\ lim_call.ok /\ lim_call.t = 6
    /\ lim_call.before.kind = "fixed_window"
    /\ lim_call.before.window_start = 0 /\ lim_call.before.request_count = 2
    /\ LimAfter.window_start = 6 /\ LimAfter.request_count = 1

\* C21: get_wait_time of a fixed window answers 0 whenever request_count is
\* below max_requests, and window_start + time_window - now only when the
\* window is full, so that a waiting caller never sleeps while budget is left.
C21_FixedWindowWaitOnlyWhenFull ==
    (lim_call.method = "get_wait_time" /\ lim_call.before.kind = "fixed_window") =>
        LET b == lim_call.before
        IN  /\ b.request_count < b.max_requests => lim_call.wait_time = 0
            /\ lim_call.wait_time # 0 =>
                 /\ b.request_count = b.max_requests
                 /\ lim_call.wait_time = b.window_start + b.time_window - lim_call.t

\* ------------------------------------------- properties: concurrency

\* Another caller is inside the locked body of the instance that caller c's
\* call is on.
SameInstanceBusy(c) ==
    \E d \in Callers \ {c} : pc[d] = "locked" /\ op[d].name = op[c].name

\* C22: a caller inside acquire / get_wait_time / the gate on one limiter can
\* always take its next step unless another caller is inside the locked body
\* of that same limiter: callers contending on, holding the lock of, or
\* sleeping for a different limiter never make it wait.
C22_NoGlobalLock ==
    \A c \in Callers :
        (pc[c] \in {"call", "locked"} /\ ~SameInstanceBusy(c))
            => ENABLED CallerStep(c)

\* C22 witness: two callers are inside the locked bodies of two different
\* limiters at the same time.
C22_Witness ==
    \E c1, c2 \in Callers :
        /\ pc[c1] = "locked" /\ pc[c2] = "locked"
        /\ op[c1].name # op[c2].name
        /\ lock[op[c1].name] = c1 /\ lock[op[c2].name] = c2

\* Some thread is suspended: a caller in the sleep of the gate's wait, or the
\* poller in its sleep between two polls.
Suspended(c) ==
    \/ pc[c] = "sleeping"
    \/ c = Poller /\ ppc = "sleeping"

\* C23: a caller suspended in the gate's wait, and the poller suspended
\* between two polls, holds no lock; while it sleeps every other caller inside
\* acquire / get_wait_time, on the same limiter or on another, can take its
\* next step unless a third caller is inside the locked body of that limiter.
C23_NoLockWhileSuspended ==
    \A c \in Callers :
        Suspended(c) =>
            /\ \A n \in Names : lock[n] # c
            /\ \A d \in Callers \ {c} :
                  (pc[d] \in {"call", "locked"} /\ ~SameInstanceBusy(d))
                      => ENABLED CallerStep(d)

\* C23 witness: while the poller sleeps between two polls, another caller is
\* inside the locked body of the poller's own limiter.
C23_Witness ==
    /\ ppc = "sleeping" /\ gate_passes >= 1
    /\ \E d \in Callers \ {Poller} :
          /\ pc[d] = "locked" /\ op[d].name = PollLimiterName
          /\ lock[PollLimiterName] = d

\* The instance `after` is the instance `before` with the bookkeeping of a
\* call made at `now` (refill, eviction or window reset as that call does it)
\* and, when the call was granted, exactly its cost consumed.
ConsumedExactly(before, after, method, granted, n) ==
    IF before.kind = "token_bucket"
    THEN after.tokens = Refilled(before, now) - (IF granted THEN Units(n) ELSE 0)
    ELSE IF before.kind = "sliding_window"
    THEN LET kept == IF method = "acquire"
                     THEN PopOld(before.requests, now - before.time_window)
                     ELSE before.requests
         IN  after.requests = (IF granted THEN Append(kept, now) ELSE kept)
    ELSE LET expired == method = "acquire"
                          /\ now - before.window_start >= before.time_window
             count == IF expired THEN 0 ELSE before.request_count
         IN  after.request_count = count + (IF granted THEN 1 ELSE 0)

\* C24: at most one caller at a time is inside the locked body of an instance,
\* and every call leaves the instance as it stood when the call completed plus
\* exactly the call's own cost if it was granted: no concurrent call's update
\* is lost, whatever the interleaving.
C24_NoLostUpdate ==
    /\ [](\A c, d \in Callers :
            (c # d /\ pc[c] = "locked" /\ pc[d] = "locked")
                => op[c].name # op[d].name)
    /\ [][\A c \in Callers :
            (pc[c] = "locked" /\ pc'[c] # "locked") =>
                ConsumedExactly(limiters[op[c].name], limiters'[op[c].name],
                                Method(op[c]),
                                Method(op[c]) = "acquire" /\ ret'[c].ok,
                                op[c].tokens)]_vars

\* C24 witness: one caller's acquire was granted and it runs its function,
\* while another caller is inside the locked body of the same instance and
\* has read the budget the first one left.
C24_Witness ==
    \E c1, c2 \in Callers :
        /\ c1 # c2 /\ op[c1].name = op[c2].name
        /\ pc[c1] = "func" /\ ~op[c1].wait /\ ret[c1].ok /\ committed[c1] > 0
        /\ pc[c2] = "locked" /\ ~op[c2].wait
        /\ snap[c2] = limiters[op[c2].name]

\* ------------------------------------------------ properties: registry

\* C25: the status report has exactly one entry for every registered name,
\* whose type is the variant registered under that name and whose fields are
\* the stored fields of the instance as they were when the entry was read
\* (the window start of a fixed window that changed between the two reads of
\* its entry is the later one); taking the report changes no limiter, no lock
\* and no registry entry.
C25_StatusReportsStoredCounters ==
    /\ [](spc = "returned" => DOMAIN rl_status = DOMAIN limiters)
    /\ [](\A name \in DOMAIN rl_status :
             LET entry == rl_status[name]
                 inst == at[name]
             IN  /\ name \in DOMAIN limiters
                 /\ entry.type = limiters[name].kind
                 /\ inst.kind = "token_bucket" =>
                        /\ entry.tokens_available = inst.tokens
                        /\ entry.capacity = inst.capacity
                        /\ entry.refill_rate = inst.refill_rate
                 /\ inst.kind = "sliding_window" =>
                        /\ entry.requests_in_window = Len(inst.requests)
                        /\ entry.max_requests = inst.max_requests
                        /\ entry.time_window = inst.time_window
                 /\ inst.kind = "fixed_window" =>
                        /\ entry.request_count = inst.request_count
                        /\ entry.max_requests = inst.max_requests
                        /\ entry.time_window = inst.time_window
                        /\ name \notin torn =>
                               entry.window_start = inst.window_start)
    /\ [][StatusStep => UNCHANGED <<limiters, lock, now>>]_vars

\* C25 witness: a report was returned for two limiters of which one had been
\* used before it was read, so that its stored counter is not the fresh one
\* and, the clock having moved on, not the up-to-date one either.
C25_Witness ==
    /\ spc = "returned"
    /\ Cardinality(DOMAIN rl_status) = 2
    /\ \E name \in DOMAIN rl_status :
           /\ at[name].kind = "token_bucket"
           /\ rl_status[name].tokens_available < Units(at[name].capacity)
           /\ rl_status[name].tokens_available
                  # TokenBucket_refill(at[name], now).tokens

\* C26: after add_limiter(name, config) the registry holds under name one
\* new instance of config's algorithm: a token bucket, full, with capacity
\* burst_capacity if given else max_requests and refill rate refill_rate if
\* given else max_requests / time_window; a sliding or fixed window with
\* max_requests and time_window; the registry has the names it had plus name,
\* and every other name keeps its instance.
C26_AddLimiterStoresOne ==
    reg_call # NoReg =>
        LET name == reg_call.name
            config == reg_call.config
            inst == limiters[name]
        IN  /\ DOMAIN limiters = (DOMAIN reg_call.before) \cup {name}
            /\ \A other \in DOMAIN reg_call.before :
                   other # name => limiters[other] = reg_call.before[other]
            /\ inst.kind = config.algorithm
            /\ config.algorithm = "token_bucket" =>
                   /\ inst.capacity = IF config.burst_capacity # 0
                                      THEN config.burst_capacity
                                      ELSE config.max_requests
                   /\ config.refill_rate # 0 =>
                          inst.refill_rate = config.refill_rate
                   /\ config.refill_rate = 0 =>
                          inst.refill_rate * config.time_window
                              = Units(config.max_requests)
                   /\ inst.tokens = Units(inst.capacity)
                   /\ inst.last_refill = reg_call.t
            /\ config.algorithm = "sliding_window" =>
                   /\ inst.max_requests = config.max_requests
                   /\ inst.time_window = config.time_window
                   /\ inst.requests = << >>
            /\ config.algorithm = "fixed_window" =>
                   /\ inst.max_requests = config.max_requests
                   /\ inst.time_window = config.time_window
                   /\ inst.request_count = 0
                   /\ inst.window_start = reg_call.t

\* C26 witness: a token bucket with a burst capacity and no refill rate was
\* registered after time had passed, under a name that held a used limiter,
\* next to another name whose limiter had been used.
C26_Witness ==
    /\ reg_call # NoReg
    /\ reg_call.config.algorithm = "token_bucket"
    /\ reg_call.config.burst_capacity # 0
    /\ reg_call.config.burst_capacity # reg_call.config.max_requests
    /\ reg_call.config.refill_rate = 0
    /\ reg_call.t > 0
    /\ reg_call.name \in DOMAIN reg_call.before
    /\ \E other \in DOMAIN reg_call.before :
           /\ other # reg_call.name
           /\ reg_call.before[other].kind = "sliding_window"
           /\ reg_call.before[other].requests # << >>

\* ------------------------------------------ properties: the two pollers

\* What poller `a` makes of the arguments it is called with.
PollLocals(a, interval, attempts) ==
    IF a = "base"
    THEN <<OrDefault(interval, DEFAULT_POLL_INTERVAL),
           OrDefault(attempts, DEFAULT_MAX_ATTEMPTS)>>
    ELSE <<interval, attempts>>

\* What an attempt of poller `a` ends in on response r.
PollOutcome(a, r) == IF a = "base" THEN base_outcome(r) ELSE photoshop_outcome(r)

\* The gate passes poller `a` has made when it has entered the loop body
\* `entries` times.
PollGatePasses(a, entries) ==
    IF a = "base" /\ ENABLE_RATE_LIMITING THEN entries ELSE 0

\* C27: the base poller and the Photoshop override are the same loop: in
\* every state of a run of one of them, the other, called with the same
\* arguments and given the same responses, would have the same poll interval
\* and attempt limit, would have ended the attempt on the last response the
\* same way (return, raise, or sleep), and would have made the same number
\* of gate passes.
C27_SamePollLoop ==
    \A a \in {"base", "photoshop"} :
        /\ ppc \notin {"idle", "entry"} =>
               <<poll_interval, max_attempts>>
                   = PollLocals(a, arg_poll_interval, arg_max_attempts)
        /\ ppc \in {"returned", "job_failed", "sleeping"} =>
               ppc = PollOutcome(a, status_data)
        /\ gate_passes
               = PollGatePasses(a, checks + IF ppc = "request" THEN 1 ELSE 0)

\* The positions in which poll_job_status has returned or raised.
PollTerminal == {"returned", "job_failed", "timed_out", "transport_error"}

\* A step in which the poller does nothing.
PollerAtRest ==
    UNCHANGED <<ppc, checks, gate_passes, sleeps, sleep_time, result, raised_msg>>

\* C28: every run of the poller, whatever the status checks answer, ends in
\* one of the four terminal outcomes (returned, job failed, timed out,
\* transport error); it has then issued at most max_attempts status checks;
\* and once it has ended it stays in that outcome with no further status
\* check, gate pass or sleep.
C28_PollerTerminates ==
    /\ <>(ppc \in PollTerminal)
    /\ [](ppc \notin {"idle", "entry"} => checks <= max_attempts)
    /\ [][(ppc \in PollTerminal) => PollerAtRest]_vars

\* C28 witness: the poller has ended after using every one of three attempts,
\* with sleeps and gate passes behind it.
C28_Witness ==
    /\ ppc \in PollTerminal
    /\ max_attempts = 3 /\ checks = 3
    /\ sleeps >= 2 /\ gate_passes = 3

\* C29: a token bucket always holds between 0 and capacity tokens, and a call
\* leaves fewer tokens than it found only if it is an acquire that was
\* granted, which leaves the refilled tokens less exactly its n; every other
\* call, and the passing of time, takes no token away.
C29_TokenBucketInvariant ==
    LimAfter.kind = "token_bucket" =>
        /\ 0 <= LimAfter.tokens
        /\ LimAfter.tokens <= Units(LimAfter.capacity)
        /\ lim_call.method # "none" =>
               IF lim_call.method = "acquire" /\ lim_call.ok
               THEN LimAfter.tokens
                        = Refilled(lim_call.before, lim_call.t)
                              - Units(lim_call.tokens)
               ELSE LimAfter.tokens >= lim_call.before.tokens

\* C29 witness: an acquire(2) on a partly used bucket, made after some of it
\* had flowed back, was granted and left fewer tokens than it found, though
\* not 2 fewer.
C29_Witness ==
    /\ LimAfter.kind = "token_bucket"
    /\ lim_call.method = "acquire" /\ lim_call.ok /\ lim_call.tokens = 2
    /\ lim_call.before.last_refill < lim_call.t
    /\ lim_call.before.tokens < Units(lim_call.before.capacity)
    /\ LimAfter.tokens < lim_call.before.tokens
    /\ LimAfter.tokens > lim_call.before.tokens - Units(2)

RECURSIVE GrantsIn(_, _, _)
\* The number of logged grants made at a time in [lo, hi].
GrantsIn(log, lo, hi) ==
    IF log = << >> THEN 0
    ELSE (IF lo <= Head(log) /\ Head(log) <= hi THEN 1 ELSE 0)
         + GrantsIn(Tail(log), lo, hi)

\* C30: a sliding window never stores more than max_requests timestamps, and
\* no interval of length time_window, [hi - time_window, hi], holds more than
\* max_requests of its grants; a fixed window's request_count is always
\* between 0 and max_requests.
C30_WindowsNeverOverAdmit ==
    /\ LimAfter.kind = "sliding_window" =>
           /\ Len(LimAfter.requests) <= LimAfter.max_requests
           /\ \A hi \in 0..now :
                  GrantsIn(lim_grants, hi - LimAfter.time_window, hi)
                      <= LimAfter.max_requests
    /\ LimAfter.kind = "fixed_window" =>
           /\ 0 <= LimAfter.request_count
           /\ LimAfter.request_count <= LimAfter.max_requests

\* C31: right after every acquire and every get_wait_time call of a sliding
\* window, made at time t, every stored timestamp lies in
\* [t - time_window, t] and the timestamps are stored oldest first.
C31_SlidingWindowFresh ==
    (lim_call.method # "none" /\ lim_call.before.kind = "sliding_window") =>
        LET stored == LimAfter.requests
        IN  /\ \A i \in DOMAIN stored :
                   /\ lim_call.t - LimAfter.time_window <= stored[i]
                   /\ stored[i] <= lim_call.t
            /\ \A i, j \in DOMAIN stored : i < j => stored[i] <= stored[j]

\* C32: every acquire and get_wait_time call of a fixed window made at a time
\* t with t - window_start >= time_window sets window_start to t and counts
\* from 0 again (leaving 1 if it is an acquire, which is then granted, else
\* 0); after any call, t - window_start < time_window.
C32_FixedWindowRollOver ==
    (lim_call.method # "none" /\ lim_call.before.kind = "fixed_window") =>
        LET b == lim_call.before
            t == lim_call.t
        IN  /\ t - b.window_start >= b.time_window =>
                   /\ LimAfter.window_start = t
                   /\ LimAfter.request_count
                          = (IF lim_call.method = "acquire" THEN 1 ELSE 0)
                   /\ lim_call.method = "acquire" => lim_call.ok
            /\ t - LimAfter.window_start < LimAfter.time_window

\* C33: either poller runs on exactly the max_attempts and poll_interval it
\* was called with, 0 included: called with max_attempts = 0 it issues no
\* status check and goes from the loop test straight to the time-out, and
\* called with poll_interval = 0 it sleeps for no time at all.
C33_ArgumentsUsedAsGiven ==
    /\ ppc \notin {"idle", "entry"} =>
           /\ max_attempts = arg_max_attempts
           /\ poll_interval = arg_poll_interval
    /\ (arg_max_attempts = 0 /\ ppc \notin {"idle", "entry", "loop"}) =>
           /\ ppc = "timed_out"
           /\ checks = 0
    /\ arg_poll_interval = 0 => sleep_time = 0

\* C34: when get_wait_time(n) has answered a value <= 0 and no request has
\* been granted on the limiter since, acquire(n), made then or at any later
\* time, is granted, for each of the three limiters.
C34_EstimateThenAcquire ==
    (lim_call.method = "acquire" /\ lim_call.prev.seen
        /\ lim_call.prev.value <= 0)
        => lim_call.ok

\* C34 witness: a sliding window full of aged-out timestamps had answered a
\* wait below 0, and the acquire that followed was granted.
C34_Witness ==
    /\ lim_call.method = "acquire" /\ lim_call.ok
    /\ lim_call.prev.seen /\ lim_call.prev.value < 0
    /\ lim_call.before.kind = "sliding_window"
    /\ Len(lim_call.before.requests) = lim_call.before.max_requests

\* C35: a token bucket never satisfies a request for more tokens than its
\* capacity: acquire(n) with n > capacity is refused and get_wait_time(n)
\* answers more than 0, however long the bucket has been left to refill.
C35_MoreThanCapacityNeverGranted ==
    (lim_call.method # "none" /\ lim_call.before.kind = "token_bucket"
        /\ lim_call.tokens > lim_call.before.capacity) =>
        /\ lim_call.method = "acquire" => ~lim_call.ok
        /\ lim_call.method = "get_wait_time" => lim_call.wait_time > 0
        /\ LimAfter.tokens = Refilled(lim_call.before, lim_call.t)

\* C35 witness: a bucket of capacity 1, full and left alone for the whole
\* run, refuses acquire(2).
C35_Witness ==
    /\ lim_call.method = "acquire" /\ lim_call.tokens = 2 /\ ~lim_call.ok
    /\ lim_call.before.kind = "token_bucket" /\ lim_call.before.capacity = 1
    /\ lim_call.before.tokens = Units(1)
    /\ lim_call.before.last_refill = 0
    /\ lim_call.t = LimMaxTime

\* ------------------------------------------------ properties: denial

\* C36: an acquire that is refused commits nothing: a sliding window and a
\* fixed window are left exactly as they were, a token bucket differs only by
\* the refill up to the time of the call; and the non-wait caller, who is then
\* raised RateLimitExceeded, has consumed nothing.
C36_DeniedCommitsNothing ==
    [][\A c \in Callers :
          (pc[c] = "locked" /\ pc'[c] # "locked"
              /\ Method(op[c]) = "acquire" /\ ~ret'[c].ok) =>
              LET before == limiters[op[c].name]
                  after == limiters'[op[c].name]
              IN  /\ before.kind # "token_bucket" => after = before
                  /\ before.kind = "token_bucket" =>
                         after = [before EXCEPT !.tokens = Refilled(before, now),
                                                !.last_refill = now]
                  /\ pc'[c] = "raised"
                  /\ committed'[c] = committed[c]
                  /\ admitLog' = admitLog]_vars

\* C36 witness: a non-wait caller was refused by a full sliding window after
\* time had passed, and has consumed nothing.
C36_Witness ==
    \E c \in Callers :
        /\ pc[c] = "raised" /\ committed[c] = 0 /\ now > 0
        /\ limiters[op[c].name].kind = "sliding_window"
        /\ Len(limiters[op[c].name].requests)
               = limiters[op[c].name].max_requests

\* C37: the registry's acquire(name, n) and get_wait_time(name, n) pass n on
\* to a token bucket only: a granted acquire takes exactly n tokens from a
\* bucket, and exactly one admission from a sliding or fixed window whatever
\* n is; whether a window grants, and the wait it answers, do not depend on n.
C37_WindowsIgnoreTokens ==
    lim_call.method # "none" =>
        LET b == lim_call.before
            t == lim_call.t
            acq == lim_call.method = "acquire"
        IN  /\ (b.kind = "token_bucket" /\ acq /\ lim_call.ok) =>
                   LimAfter.tokens = Refilled(b, t) - Units(lim_call.tokens)
            /\ (b.kind = "sliding_window" /\ acq) =>
                   LET kept == PopOld(b.requests, t - b.time_window)
                   IN  /\ lim_call.ok <=> Len(kept) < b.max_requests
                       /\ LimAfter.requests
                              = (IF lim_call.ok THEN Append(kept, t) ELSE kept)
            /\ (b.kind = "sliding_window" /\ ~acq) =>
                   lim_call.wait_time
                       = (IF Len(b.requests) < b.max_requests THEN 0
                          ELSE Head(b.requests) + b.time_window - t)
            /\ (b.kind = "fixed_window" /\ acq) =>
                   LET count == IF t - b.window_start >= b.time_window
                                THEN 0 ELSE b.request_count
                   IN  /\ lim_call.ok <=> count < b.max_requests
                       /\ LimAfter.request_count
                              = count + (IF lim_call.ok THEN 1 ELSE 0)
            /\ (b.kind = "fixed_window" /\ ~acq) =>
                   lim_call.wait_time
                       = (IF t >= b.window_start + b.time_window THEN 0
                          ELSE b.window_start + b.time_window - t)

\* C37 witness: acquire(2) on a sliding window with room for two was granted
\* and stored one timestamp.
C37_Witness ==
    /\ lim_call.method = "acquire" /\ lim_call.ok /\ lim_call.tokens = 2
    /\ lim_call.before.kind = "sliding_window"
    /\ Len(lim_call.before.requests) + 2 <= lim_call.before.max_requests
    /\ Len(LimAfter.requests) = Len(lim_call.before.requests) + 1

\* C38: no step removes a name from the registry; add_limiter on a name that
\* is registered puts a new instance in place of the old one, with its full
\* budget (a full bucket refilled at the time of the call, a sliding window
\* with nothing stored, a fixed window counting 0 from the time of the call)
\* whatever had been admitted under the name, and every other name keeps its
\* instance with its counters.
C38_ReRegistrationReplaces ==
    /\ [](reg_call # NoReg =>
            LET name == reg_call.name
                inst == limiters[name]
            IN  /\ name \in DOMAIN limiters
                /\ inst.kind = reg_call.config.algorithm
                /\ inst.kind = "token_bucket" =>
                       /\ inst.tokens = Units(inst.capacity)
                       /\ inst.last_refill = reg_call.t
                /\ inst.kind = "sliding_window" => inst.requests = << >>
                /\ inst.kind = "fixed_window" =>
                       /\ inst.request_count = 0
                       /\ inst.window_start = reg_call.t
                /\ \A other \in DOMAIN reg_call.before :
                       other # name =>
                           /\ other \in DOMAIN limiters
                           /\ limiters[other] = reg_call.before[other])
    /\ [][DOMAIN limiters \subseteq DOMAIN limiters']_vars

\* C38 witness: a name whose sliding window had admitted requests was
\* registered again, as a sliding window, while the bucket under the other
\* name had tokens taken from it.
C38_Witness ==
    /\ reg_call # NoReg
    /\ reg_call.name \in DOMAIN reg_call.before
    /\ reg_call.before[reg_call.name].kind = "sliding_window"
    /\ reg_call.before[reg_call.name].requests # << >>
    /\ reg_call.config.algorithm = "sliding_window"
    /\ \E other \in DOMAIN limiters :
           /\ other # reg_call.name
           /\ limiters[other].kind = "token_bucket"
           /\ limiters[other].tokens < Units(limiters[other].capacity)

====
